---- MODULE Spec2Model ----
(***************************************************************************)
(* The email channel of picoclaw (pkg/channels, multi-account version):    *)
(* Start / Stop / Send / CheckNow, the poll loop and one poll cycle        *)
(* (checkAllMail -> connectAllIMAP -> checkAccountMail -> processMessage), *)
(* run against an IMAP mail store and the message bus.                     *)
(*                                                                         *)
(* Clock unit: one hour.  A message's sequence number is its index in the  *)
(* mailbox; its UID is a field of the message (UID >= sequence number).    *)
(***************************************************************************)
EXTENDS Integers, Naturals, Sequences, FiniteSets, TLC

\* ---------------------------------------------------------------- bounds
MaxMsgs == 2        \* messages per mailbox in Spec
LifeMsgs == 1       \* messages per mailbox in SpecLife
CapExtra == 2       \* messages beyond maxEmails per mailbox in SpecCap
MaxNow == 2         \* the clock stops advancing here
MaxLoops == 2       \* poll-loop goroutines that can exist at once
MaxCalls == 2       \* saturation of the count of unserved CheckNow calls
MaxPub == 2         \* saturation of the per-message hand-off counters
MaxOut == 1         \* OutboundMessages of CheckMailTool waiting on the bus
MultiMsgs == 1      \* messages per mailbox in SpecMulti
FarGap == 20        \* how far the UIDs of a mailbox can be above its sequence numbers
MaxBody == 700      \* bytes of the longest body in SpecFwd
ToolMsgs == 2       \* messages of a small mailbox a tool reads
MaxParts == 2       \* inline parts of a message in SpecParts

\* ------------------------------------------------------ program constants
maxEmails == 10     \* const maxEmails = 10
Hour == 1           \* 1*time.Hour, in clock units
ManualCheckCap == 1 \* manualCheck: make(chan bool, 1)
maxForward == 500   \* if len(body) > 500 { ... body[:500] }
defaultCount == 5   \* count := 5
maxCount == 10      \* if count > 10 { count = 10 }

CmdCheck == <<"CMD:CHECK">>

VARIABLES
    config,       \* c.config: [Accounts, AllowFrom, ForwardTo], fixed after construction
    broken,       \* environment: the accounts whose mail store can fail a request
    now,          \* wall clock
    mbox,         \* mail store: account -> sequence of messages (static part)
    seen,         \* mail store: account -> sequence of \Seen flags
    imapClients,  \* c.imapClients: account -> state of the client in the map
    leaked,       \* accounts with a session replaced in the map while still open
    running,      \* BaseChannel.running
    stopClosed,   \* c.stopChan has been closed
    ctxDone,      \* the context passed to Start is cancelled
    manualCheck,  \* number of values buffered in c.manualCheck (capacity 1)
    mu,           \* c.mu: 0 when free, else the task holding it
    loops,        \* the pollLoop goroutines
    stopPc,       \* a Stop call between close(stopChan) and c.mu.Lock()
    panicked,     \* the process died of a run-time panic
    busFull,      \* bus: the inbound queue is full, PublishInbound gives up
    handed,       \* bus: per message, InboundMessages accepted by PublishInbound
    fwd,          \* bus: per message, forward notifications given to PublishOutbound
    inbound,      \* bus: the InboundMessages accepted by PublishInbound, in order
    outbound,     \* bus: the queue of OutboundMessages waiting for their channel
    received,     \* bus: the other registered channels -> what their Send was given
    tool,         \* the agent's tools: the last Execute call, its input and its result
    unserved,     \* CheckNow calls since the poll task last consumed the signal
    lastSend,     \* what the most recent Send call did and returned
    outbox        \* SMTP server: the recipients of the mails it accepted

vars == <<config, broken, now, mbox, seen, imapClients, leaked, running, stopClosed,
          ctxDone, manualCheck, mu, loops, stopPc, panicked, busFull, handed, fwd,
          inbound, outbound, received, tool, unserved, lastSend, outbox>>

LoopIds == 1..MaxLoops

Min(a, b) == IF a < b THEN a ELSE b

Accts == DOMAIN config.Accounts

\* ------------------------------------------------------------ pure helpers

\* strings.TrimSpace on a content given as a sequence of tokens, " " being white space
RECURSIVE TrimLeft(_)
TrimLeft(s) == IF s # <<>> /\ Head(s) = " " THEN TrimLeft(Tail(s)) ELSE s

RECURSIVE TrimRight(_)
TrimRight(s) ==
    IF s # <<>> /\ s[Len(s)] = " " THEN TrimRight(SubSeq(s, 1, Len(s) - 1)) ELSE s

TrimSpace(s) == TrimRight(TrimLeft(s))

\* strings.SplitN(s, ":", 2) on a string given as a sequence of tokens
FirstColon(s) ==
    IF \E i \in DOMAIN s : s[i] = ":"
    THEN CHOOSE i \in DOMAIN s : s[i] = ":" /\ \A j \in 1..(i - 1) : s[j] # ":"
    ELSE 0

SplitN2(s) ==
    IF FirstColon(s) = 0 THEN <<s>>
    ELSE <<SubSeq(s, 1, FirstColon(s) - 1), SubSeq(s, FirstColon(s) + 1, Len(s))>>

\* the forward target of processMessage: <<channel, chatID>>, or <<>> when none
ForwardTarget ==
    IF config.ForwardTo # <<>> /\ Len(SplitN2(config.ForwardTo)) = 2
    THEN SplitN2(config.ForwardTo) ELSE <<>>

\* BaseChannel.IsAllowed
IsAllowed(senderID) ==
    \/ config.AllowFrom = <<>>
    \/ \E i \in DOMAIN config.AllowFrom : config.AllowFrom[i] = senderID

\* the sender read from the last address of the From list instead of the first
SenderOfLast(m) ==
    m.from[Len(m.from)].MailboxName \o "@" \o m.from[Len(m.from)].HostName

\* sender := fmt.Sprintf("%s@%s", from[0].MailboxName, from[0].HostName)
SenderOf(m) == m.from[1].MailboxName \o "@" \o m.from[1].HostName

\* time.Since(msg.Envelope.Date) > 1*time.Hour, guarded by msg.Envelope != nil
Stale(m) == m.env /\ now - m.date > Hour

\* the body extraction of processMessage over the inline parts still to read,
\* body being what the parts read so far gave
RECURSIVE ExtractFrom(_, _)
ExtractFrom(parts, body) ==
    IF parts = <<>> THEN body
    ELSE ExtractFrom(Tail(parts),
                     IF Head(parts).ctype = "text/plain" THEN Head(parts).content
                     ELSE IF Head(parts).ctype = "text/html" /\ body = <<>>
                          THEN Head(parts).content
                          ELSE body)

ExtractBody(m) == ExtractFrom(m.parts, <<>>)

\* if len(body) > 500 { ... body[:500] followed by "..." }: len and the slice
\* count bytes
Truncate(body) ==
    IF Len(body) > maxForward THEN SubSeq(body, 1, maxForward) \o <<"...">> ELSE body

\* forwardContent: the format string with its arguments in place (the leading
\* envelope emoji of the format is left out)
forwardContent(accountEmail, sender, subject, body) ==
    <<"**New Email [", accountEmail, "]**\n**From:** ", sender, "\n**Subject:** ",
      subject, "\n\n">> \o Truncate(body)

contentWithContext(account, subject, body) ==
    <<"[Received at ", account, "]\nSubject: ", subject, "\n\n">> \o body

\* how far processMessage gets with message m
ProcessOutcome(m) ==
    IF ~m.env THEN "noenvelope"
    ELSE IF m.from = <<>> THEN "nosender"
    ELSE IF ~IsAllowed(SenderOf(m)) THEN "rejected"
    ELSE IF m.body = "nil" THEN "nobody"
    ELSE IF m.body = "bad" THEN "badbody"
    ELSE "handled"

\* the sequence numbers of the mailbox taken newest first
SeqNumsNewestFirst(a) == [i \in 1..Len(mbox[a]) |-> Len(mbox[a]) + 1 - i]

\* imapClient.Search(WithoutFlags \Seen): the unseen sequence numbers, ascending
SeqNums(a) == [i \in 1..Len(mbox[a]) |-> i]
IsUnseen(a, i) == ~seen[a][i]
Search(a) == SelectSeq(SeqNums(a), LAMBDA i : IsUnseen(a, i))

\* the cap keeping the oldest unread messages instead of the newest
CapOldest(uids) == IF Len(uids) > maxEmails THEN SubSeq(uids, 1, maxEmails) ELSE uids

\* uids = uids[len(uids)-maxEmails:]
CapNewest(uids) ==
    IF Len(uids) > maxEmails
    THEN SubSeq(uids, Len(uids) - maxEmails + 1, Len(uids))
    ELSE uids

WorkingSet(a) == CapNewest(Search(a))

Range(s) == {s[i] : i \in DOMAIN s}

\* the unread messages of account a that the cap leaves for a later cycle
Deferred(a) == {<<a, i>> : i \in Range(Search(a)) \ Range(WorkingSet(a))}

\* the body section asked for with Peek set: BODY.PEEK[], which changes no flag
PeekSet == TRUE

\* section := &imap.BodySectionName{}: Peek is left false, so the FETCH item is
\* BODY[] and the server sets \Seen on every message it returns
Peek == FALSE

Bump(f, a, i, max) == [f EXCEPT ![a][i] = Min(@ + 1, max)]

\* ------------------------------------------------------- configurations

Alice == [MailboxName |-> "alice", HostName |-> "x.org"]
Mallory == [MailboxName |-> "mallory", HostName |-> "x.org"]

Account(n, port) ==
    [Email |-> n \o "@me.org", IMAPUser |-> n, SMTPUser |-> n,
     SMTPServer |-> "smtp.me.org", SMTPPort |-> port]

\* an account whose SMTP server runs on the machine of the channel
LocalAccount(n, port) == [Account(n, port) EXCEPT !.SMTPServer = "localhost"]

AllowLists == {<<>>, <<"alice@x.org">>}
ForwardTos == {<<>>, <<"discord", ":", "12345">>}

\* a message of the mail store: UID, envelope (present or not, date, From list),
\* body ("ok": a parseable MIME body, "bad": mail.CreateReader fails, "nil":
\* GetBody returns nil), whether the user had read it before the channel ran, the
\* subject and the inline parts of the body, each a content type and a content.
\* A content is a Go string: a sequence of bytes, a byte being written as a
\* one-character or two-character string ("C3", "A9": the two bytes of one
\* UTF-8 character)
Part(ctype, content) == [ctype |-> ctype, content |-> content]

Message(uid, date, from, body, read) ==
    [uid |-> uid, env |-> TRUE, date |-> date, from |-> from, body |-> body,
     read |-> read, subject |-> "hello",
     parts |-> <<Part("text/plain", <<"h", "i">>)>>]

\* a mailbox built from a sequence of kinds, UIDs shifted by gap
MailboxOf(kinds, gap) == [i \in DOMAIN kinds |-> [kinds[i] EXCEPT !.uid = i + gap]]

SeqsUpTo(S, n) == UNION {[1..k -> S] : k \in 0..n}

\* every mailbox of up to maxLen messages of the given kinds
Mailboxes(kinds, maxLen, gaps) ==
    {MailboxOf(ks, g) : ks \in SeqsUpTo(kinds, maxLen), g \in gaps}

\* a poll loop: where it is, and the locals of its cycle: the account being checked,
\* the fetched messages still to process, the unread messages the cap left out;
\* shut records that a shutdown signal was raised while a cycle of the loop was
\* in flight
LoopOff == [pc |-> "off", acct |-> 0, work |-> <<>>, deferred |-> {}, shut |-> FALSE]

\* loop l is inside checkAllMail
InCycle(l) == loops[l].pc \in {"connect", "lock", "account", "fetch"}

\* the loops, once a shutdown signal has been raised
Signalled ==
    [l \in LoopIds |-> IF InCycle(l) THEN [loops[l] EXCEPT !.shut = TRUE] ELSE loops[l]]

NoMsg == [ChatID |-> "", Content |-> <<>>]
\* the agent has no tool call to make
NoCall == [name |-> "none", done |-> FALSE]

NoSend == [called |-> FALSE, msg |-> NoMsg, err |-> "nil", log |-> <<>>]

\* the state NewEmailChannel leaves, for a given configuration and mail store
\* every request to every mail store can fail
AnyFault(accts) == {accts}

\* any subset of the mail stores can fail requests, the others never do
SomeFaults(accts) == SUBSET accts

\* the mail stores never fail a request, or any request can fail
NoneOrAll(accts) == {{}, accts}

\* the sets of failing mail stores an environment of the given kind allows
FaultSets(kind, accts) ==
    IF kind = "any" THEN AnyFault(accts)
    ELSE IF kind = "none" THEN {{}}
    ELSE IF kind = "some" THEN SomeFaults(accts)
    ELSE NoneOrAll(accts)

\* the channels registered with the bus beside "email", none of them called yet
NoneReceived(names) == [n \in names |-> <<>>]

\* the channel after NewEmailChannel, beside the other channels of the bus
InitChannel(cfgs, boxes, kind, registries) ==
    /\ config \in cfgs
    /\ broken \in FaultSets(kind, DOMAIN config.Accounts)
    /\ inbound = <<>>
    /\ outbound = <<>>
    /\ received \in {NoneReceived(names) : names \in registries}
    /\ mbox \in [DOMAIN config.Accounts -> boxes]
    /\ seen = [a \in DOMAIN mbox |-> [i \in DOMAIN mbox[a] |-> mbox[a][i].read]]
    /\ handed = [a \in DOMAIN mbox |-> [i \in DOMAIN mbox[a] |-> 0]]
    /\ fwd = [a \in DOMAIN mbox |-> [i \in DOMAIN mbox[a] |-> 0]]
    /\ now = Hour
    /\ imapClients = [a \in DOMAIN mbox |-> "none"]
    /\ leaked = {}
    /\ running = FALSE
    /\ stopClosed = FALSE
    /\ ctxDone = FALSE
    /\ manualCheck = 0
    /\ mu = 0
    /\ loops = [l \in LoopIds |-> LoopOff]
    /\ stopPc = "idle"
    /\ panicked = FALSE
    /\ unserved = 0
    /\ lastSend = NoSend
    /\ outbox = {}
    /\ busFull = FALSE

InitRegistered(cfgs, boxes, kind, registries) ==
    /\ InitChannel(cfgs, boxes, kind, registries)
    /\ tool = NoCall

\* "email" is the only channel registered with the bus
InitFaulty(cfgs, boxes, kind) == InitRegistered(cfgs, boxes, kind, {{}})

InitWith(cfgs, boxes) == InitFaulty(cfgs, boxes, "any")

\* ------------------------------------------------------------ the channel

\* the results a request to the mail store of account a can have: TRUE for
\* success, FALSE for an error
Outcomes(a) == IF a \in broken THEN BOOLEAN ELSE {TRUE}

\* the results of connectIMAPAccount (Dial and Login), one per account
ConnectOutcomes == {ok \in [Accts -> BOOLEAN] : \A a \in Accts : ok[a] \in Outcomes(a)}

\* a connection attempted only for an account without a client in the map
NeedsConnectMissing(a) == config.Accounts[a].Email # "" /\ imapClients[a] = "none"

\* connectAllIMAP: the account is configured and its client is missing from the
\* map or not in Authenticated state
NeedsConnect(a) == config.Accounts[a].Email # "" /\ imapClients[a] # "auth"

\* the connection loop giving up at the first account it fails to connect
connectAllIMAPAbort(ok) ==
    LET reached(a) == \A b \in 1..(a - 1) : ~(NeedsConnect(b) /\ ~ok[b])
    IN /\ imapClients' = [a \in Accts |->
                            IF NeedsConnect(a) /\ ok[a] /\ reached(a) THEN "auth"
                                                                     ELSE imapClients[a]]
       /\ leaked' = leaked \cup {a \in Accts : NeedsConnect(a) /\ ok[a] /\ reached(a)
                                                   /\ imapClients[a] = "selected"}

\* connectAllIMAP, with ok[a] telling whether connectIMAPAccount succeeds for a
connectAllIMAP(ok) ==
    /\ imapClients' = [a \in Accts |->
                         IF NeedsConnect(a) /\ ok[a] THEN "auth" ELSE imapClients[a]]
    /\ leaked' = leaked \cup {a \in Accts : NeedsConnect(a) /\ ok[a]
                                                /\ imapClients[a] = "selected"}

FreeSlots == {l \in LoopIds : loops[l].pc = "off"}

\* Start: connectAllIMAP, setRunning(true), go c.pollLoop(ctx), return nil
Start ==
    /\ ~panicked
    /\ mu = 0
    /\ FreeSlots # {}
    /\ \E ok \in ConnectOutcomes : connectAllIMAP(ok)
    /\ running' = TRUE
    /\ LET l == CHOOSE f \in FreeSlots : \A g \in FreeSlots : f <= g
       IN loops' = [loops EXCEPT ![l] = [LoopOff EXCEPT !.pc = "initial"]]
    /\ UNCHANGED <<config, broken, now, mbox, seen, stopClosed, ctxDone, manualCheck, mu,
                   stopPc, panicked, handed, fwd, inbound, outbound, received, tool, unserved, lastSend, busFull, outbox>>

\* Stop, first half: setRunning(false); close(c.stopChan)
StopSignal ==
    /\ ~panicked
    /\ running' = FALSE
    /\ IF stopClosed
       THEN panicked' = TRUE /\ UNCHANGED <<stopClosed, stopPc, loops>>
       ELSE /\ stopClosed' = TRUE
            /\ stopPc' = "lock"
            /\ loops' = Signalled
            /\ UNCHANGED panicked
    /\ UNCHANGED <<config, broken, now, mbox, seen, imapClients, leaked, ctxDone,
                   manualCheck, mu, handed, fwd, inbound, outbound, received, tool, unserved, lastSend, busFull, outbox>>

\* Stop, second half: c.mu.Lock(); Logout every client of the map; return nil
StopLogout ==
    /\ ~panicked
    /\ stopPc = "lock"
    /\ mu = 0
    /\ imapClients' = [a \in Accts |->
                         IF imapClients[a] = "none" THEN "none" ELSE "logout"]
    /\ stopPc' = "idle"
    /\ UNCHANGED <<config, broken, now, mbox, seen, leaked, running, stopClosed, ctxDone,
                   manualCheck, mu, loops, panicked, handed, fwd, inbound, outbound, received, tool, unserved, lastSend, busFull, outbox>>

\* the context passed to Start is cancelled
CancelCtx ==
    /\ ~panicked
    /\ ~ctxDone
    /\ ctxDone' = TRUE
    /\ loops' = Signalled
    /\ UNCHANGED <<config, broken, now, mbox, seen, imapClients, leaked, running, stopClosed,
                   manualCheck, mu, stopPc, panicked, handed, fwd, inbound, outbound, received, tool, unserved,
                   lastSend, busFull, outbox>>

\* time passes
Advance ==
    /\ ~panicked
    /\ now < MaxNow
    /\ now' = now + 1
    /\ UNCHANGED <<config, broken, mbox, seen, imapClients, leaked, running, stopClosed,
                   ctxDone, manualCheck, mu, loops, stopPc, panicked, handed, fwd, inbound, outbound, received, tool,
                   unserved, lastSend, busFull, outbox>>

\* the signal channel made with room for two values
EnqueueCap2 ==
    /\ manualCheck' = IF manualCheck < ManualCheckCap + 1 THEN manualCheck + 1
                                                           ELSE manualCheck
    /\ unserved' = Min(unserved + 1, MaxCalls)

\* a plain send c.manualCheck <- true, without the default case
EnqueueBlocking ==
    /\ manualCheck < ManualCheckCap
    /\ manualCheck' = manualCheck + 1
    /\ unserved' = Min(unserved + 1, MaxCalls)

\* select { case c.manualCheck <- true: ... default: ... }
Enqueue ==
    /\ manualCheck' = IF manualCheck < ManualCheckCap THEN manualCheck + 1
                                                       ELSE manualCheck
    /\ unserved' = Min(unserved + 1, MaxCalls)

CheckNow ==
    /\ ~panicked
    /\ Enqueue
    /\ UNCHANGED <<config, broken, now, mbox, seen, imapClients, leaked, running, stopClosed,
                   ctxDone, mu, loops, stopPc, panicked, handed, fwd, inbound, outbound, received, tool, lastSend,
                   busFull, outbox>>

\* ---------------------------------------------------------- the poll loop

LoopVarsUnchanged ==
    UNCHANGED <<config, broken, now, mbox, running, stopClosed, ctxDone, stopPc, panicked,
                lastSend, busFull, outbox>>

\* pollLoop entering the select loop without the initial check
PollInitialWaits(l) ==
    /\ ~panicked
    /\ loops[l].pc = "initial"
    /\ loops' = [loops EXCEPT ![l].pc = "select"]
    /\ LoopVarsUnchanged
    /\ UNCHANGED <<seen, imapClients, leaked, manualCheck, mu, handed, fwd, inbound, outbound, received, tool, unserved>>

\* pollLoop: the initial check before the select loop is entered
PollInitial(l) ==
    /\ ~panicked
    /\ loops[l].pc = "initial"
    /\ loops' = [loops EXCEPT ![l].pc = "connect"]
    /\ LoopVarsUnchanged
    /\ UNCHANGED <<seen, imapClients, leaked, manualCheck, mu, handed, fwd, inbound, outbound, received, tool, unserved>>

\* select: case <-ctx.Done(): return
PollCtxDone(l) ==
    /\ ~panicked
    /\ loops[l].pc = "select"
    /\ ctxDone
    /\ loops' = [loops EXCEPT ![l] = LoopOff]
    /\ LoopVarsUnchanged
    /\ UNCHANGED <<seen, imapClients, leaked, manualCheck, mu, handed, fwd, inbound, outbound, received, tool, unserved>>

\* select: case <-c.stopChan: return
PollStopped(l) ==
    /\ ~panicked
    /\ loops[l].pc = "select"
    /\ stopClosed
    /\ loops' = [loops EXCEPT ![l] = LoopOff]
    /\ LoopVarsUnchanged
    /\ UNCHANGED <<seen, imapClients, leaked, manualCheck, mu, handed, fwd, inbound, outbound, received, tool, unserved>>

\* select: case <-ticker.C: c.checkAllMail()
PollTick(l) ==
    /\ ~panicked
    /\ loops[l].pc = "select"
    /\ loops' = [loops EXCEPT ![l].pc = "connect"]
    /\ LoopVarsUnchanged
    /\ UNCHANGED <<seen, imapClients, leaked, manualCheck, mu, handed, fwd, inbound, outbound, received, tool, unserved>>

\* the manual-check case taking the signal without calling checkAllMail
PollManualDiscards(l) ==
    /\ ~panicked
    /\ loops[l].pc = "select"
    /\ manualCheck > 0
    /\ manualCheck' = manualCheck - 1
    /\ unserved' = 0
    /\ LoopVarsUnchanged
    /\ UNCHANGED <<seen, imapClients, leaked, mu, loops, handed, fwd, inbound, outbound,
                   received, tool>>

\* select: case <-c.manualCheck: c.checkAllMail()
PollManual(l) ==
    /\ ~panicked
    /\ loops[l].pc = "select"
    /\ manualCheck > 0
    /\ manualCheck' = manualCheck - 1
    /\ unserved' = 0
    /\ loops' = [loops EXCEPT ![l].pc = "connect"]
    /\ LoopVarsUnchanged
    /\ UNCHANGED <<seen, imapClients, leaked, mu, handed, fwd, inbound, outbound, received, tool>>

\* checkAllMail: c.connectAllIMAP(), which holds c.mu from start to end
CheckConnect(l) ==
    /\ ~panicked
    /\ loops[l].pc = "connect"
    /\ mu = 0
    /\ \E ok \in ConnectOutcomes : connectAllIMAP(ok)
    /\ loops' = [loops EXCEPT ![l].pc = "lock", ![l].deferred = {}]
    /\ LoopVarsUnchanged
    /\ UNCHANGED <<seen, manualCheck, mu, handed, fwd, inbound, outbound, received, tool, unserved>>

\* the loop record and the mutex once account a of the cycle is finished: the next
\* account, or the deferred c.mu.Unlock() and back to the select
AfterAccount(l, a) ==
    IF a < Len(config.Accounts)
    THEN [loops EXCEPT ![l].pc = "account", ![l].acct = a + 1, ![l].work = <<>>]
    ELSE [loops EXCEPT ![l].pc = "select", ![l].acct = 0, ![l].work = <<>>]

MuAfterAccount(l, a) == IF a < Len(config.Accounts) THEN l ELSE 0

\* checkAllMail: c.mu.Lock() and the head of the loop over c.config.Accounts
CheckLock(l) ==
    /\ ~panicked
    /\ loops[l].pc = "lock"
    /\ mu = 0
    /\ loops' = AfterAccount(l, 0)
    /\ mu' = MuAfterAccount(l, 0)
    /\ LoopVarsUnchanged
    /\ UNCHANGED <<seen, imapClients, leaked, manualCheck, handed, fwd, inbound, outbound, received, tool, unserved>>

AtAccount(l) == ~panicked /\ loops[l].pc = "account" /\ mu = l

Live(a) == imapClients[a] \notin {"none", "logout"}

\* checkAllMail: !ok || client.State() == imap.LogoutState: continue
AccountSkip(l) ==
    /\ AtAccount(l)
    /\ ~Live(loops[l].acct)
    /\ loops' = AfterAccount(l, loops[l].acct)
    /\ mu' = MuAfterAccount(l, loops[l].acct)
    /\ LoopVarsUnchanged
    /\ UNCHANGED <<seen, imapClients, leaked, manualCheck, handed, fwd, inbound, outbound, received, tool, unserved>>

\* a failed Select ending the poll task
AfterSelectErrorFatal(l, a) == [loops EXCEPT ![l] = LoopOff]

\* the return after a failed Select: checkAllMail goes on with the next account
AfterSelectError(l, a) == AfterAccount(l, a)

\* checkAccountMail: Select fails, the client is logged out
SelectFail(l) ==
    /\ AtAccount(l)
    /\ Live(loops[l].acct)
    /\ FALSE \in Outcomes(loops[l].acct)
    /\ imapClients' = [imapClients EXCEPT ![loops[l].acct] = "logout"]
    /\ loops' = AfterSelectError(l, loops[l].acct)
    /\ mu' = MuAfterAccount(l, loops[l].acct)
    /\ LoopVarsUnchanged
    /\ UNCHANGED <<seen, leaked, manualCheck, handed, fwd, inbound, outbound, received, tool, unserved>>

\* checkAccountMail: Select succeeds and the account is left without a fetch: the
\* mailbox is empty, the search fails (searchOk false) or finds nothing unseen
SelectNoFetch(l) ==
    /\ AtAccount(l)
    /\ Live(loops[l].acct)
    /\ \E searchOk \in Outcomes(loops[l].acct) :
         \/ Len(mbox[loops[l].acct]) = 0
         \/ ~searchOk
         \/ Search(loops[l].acct) = <<>>
    /\ imapClients' = [imapClients EXCEPT ![loops[l].acct] = "selected"]
    /\ loops' = AfterAccount(l, loops[l].acct)
    /\ mu' = MuAfterAccount(l, loops[l].acct)
    /\ LoopVarsUnchanged
    /\ UNCHANGED <<seen, leaked, manualCheck, handed, fwd, inbound, outbound, received, tool, unserved>>

\* the server setting \Seen on every message of the mailbox
FetchFlagsAll(a, got) == [seen EXCEPT ![a] = [i \in DOMAIN seen[a] |-> TRUE]]

\* the flags after the server has returned the messages got of a FETCH BODY[]
FetchFlags(a, got) ==
    [seen EXCEPT ![a] = [i \in DOMAIN seen[a] |->
                           IF ~Peek /\ i \in Range(got) THEN TRUE ELSE seen[a][i]]]

\* checkAccountMail: Select and Search succeed, the working set is capped and
\* fetched; the server returns its first k messages (all of them unless Fetch fails)
FetchBegin(l) ==
    /\ AtAccount(l)
    /\ Live(loops[l].acct)
    /\ Len(mbox[loops[l].acct]) # 0
    /\ WorkingSet(loops[l].acct) # <<>>
    /\ LET a == loops[l].acct
           ws == WorkingSet(a)
       IN \E k \in 0..Len(ws) :
            /\ (k = Len(ws)) \in Outcomes(a)
            /\ seen' = FetchFlags(a, SubSeq(ws, 1, k))
            /\ IF k = 0
               THEN loops' = AfterAccount(l, a) /\ mu' = MuAfterAccount(l, a)
               ELSE /\ loops' = [loops EXCEPT ![l].pc = "fetch",
                                              ![l].work = SubSeq(ws, 1, k),
                                              ![l].deferred = Deferred(a)]
                    /\ mu' = mu
    /\ imapClients' = [imapClients EXCEPT ![loops[l].acct] = "selected"]
    /\ LoopVarsUnchanged
    /\ UNCHANGED <<leaked, manualCheck, handed, fwd, inbound, outbound, received, tool, unserved>>

\* MessageBus.PublishInbound: the hand-off to the agent loop's queue, given up
\* when the queue stays full
PublishInbound(a, i) == IF busFull THEN handed ELSE Bump(handed, a, i, MaxPub)

\* BaseChannel.HandleMessage: the allow-list check, then PublishInbound
HandleMessage(senderID, a, i) ==
    IF IsAllowed(senderID) THEN PublishInbound(a, i) ELSE handed

\* MessageBus.PublishOutbound of the forward notification
PublishOutbound(a, i) == Bump(fwd, a, i, MaxPub)

\* every email filed under one fixed chat
ChatIDOfSystem(sender) == "system"

\* chatID := sender
ChatIDOf(sender) == sender

\* the InboundMessage BaseChannel.HandleMessage builds from its arguments; src
\* names the message of the mail store it was made from
InboundMessage(senderID, chatID, content, metadata, src) ==
    [Channel |-> "email", SenderID |-> senderID, ChatID |-> chatID,
     Content |-> content, Metadata |-> metadata, src |-> src]

\* the arguments processMessage gives HandleMessage for message i of account a
InboundOf(a, i) ==
    LET m == mbox[a][i]
        accountEmail == config.Accounts[a].Email
    IN InboundMessage(SenderOf(m), ChatIDOf(SenderOf(m)),
                      contentWithContext(accountEmail, m.subject, ExtractBody(m)),
                      [subject |-> m.subject, email |-> SenderOf(m),
                       to |-> accountEmail],
                      <<a, i>>)

\* the OutboundMessage of the forward notification for message i of account a
ForwardOf(a, i) ==
    LET m == mbox[a][i]
    IN [Channel |-> ForwardTarget[1], ChatID |-> ForwardTarget[2],
        Content |-> forwardContent(config.Accounts[a].Email, SenderOf(m), m.subject,
                                   ExtractBody(m)),
        src |-> <<a, i>>]

\* the bus takes the InboundMessage of a sender BaseChannel.HandleMessage lets through
Accepted(senderID) == IsAllowed(senderID) /\ ~busFull

\* processMessage(msg, section, acc.Email) for message i of account a
processMessage(a, i) ==
    IF ProcessOutcome(mbox[a][i]) = "handled"
    THEN /\ fwd' = IF ForwardTarget # <<>> THEN PublishOutbound(a, i) ELSE fwd
         /\ outbound' = IF ForwardTarget # <<>> THEN Append(outbound, ForwardOf(a, i))
                                                ELSE outbound
         /\ handed' = HandleMessage(SenderOf(mbox[a][i]), a, i)
         /\ inbound' = IF Accepted(SenderOf(mbox[a][i]))
                        THEN Append(inbound, InboundOf(a, i)) ELSE inbound
         /\ UNCHANGED <<received, tool>>
    ELSE UNCHANGED <<handed, fwd, inbound, outbound, received, tool>>

\* imapClient.Store(seq, +FLAGS \Seen) with seq.AddNum(msg.Uid): the sequence
\* number it names is the message's UID
StoreSeen(a, i, storeOk) ==
    IF storeOk /\ mbox[a][i].uid \in DOMAIN seen[a]
    THEN [seen EXCEPT ![a][mbox[a][i].uid] = TRUE]
    ELSE seen

\* processMessage for message i of account a, then the Store that marks it seen;
\* an error of the Store is logged and nothing else
processAndStore(a, i, storeOk) ==
    /\ processMessage(a, i)
    /\ seen' = StoreSeen(a, i, storeOk)

\* checkAccountMail: one turn of `for msg := range messages`
ProcessOne(l) ==
    /\ ~panicked
    /\ loops[l].pc = "fetch"
    /\ mu = l
    /\ LET a == loops[l].acct
           i == Head(loops[l].work)
           rest == Tail(loops[l].work)
       IN /\ IF Stale(mbox[a][i])
             THEN UNCHANGED <<seen, handed, fwd, inbound, outbound, received, tool>>
             ELSE \E storeOk \in Outcomes(a) : processAndStore(a, i, storeOk)
          /\ IF rest = <<>>
             THEN loops' = AfterAccount(l, a) /\ mu' = MuAfterAccount(l, a)
             ELSE loops' = [loops EXCEPT ![l].work = rest] /\ mu' = mu
    /\ LoopVarsUnchanged
    /\ UNCHANGED <<imapClients, leaked, manualCheck, unserved>>

\* ------------------------------------------------------------------ Send

\* the command compared with the wrong literal
IsCommandLower(content) == TrimSpace(content) = <<"cmd:check">>

\* strings.TrimSpace(msg.Content) == "CMD:CHECK"
IsCommand(content) == TrimSpace(content) = CmdCheck

\* the network steps of a delivery, in order: the SMTPPort == 465 branch, and
\* smtp.SendMail for every other port, which dials in plaintext, says EHLO and
\* upgrades with STARTTLS when the server offers that extension
SmtpSteps(port, starttls) ==
    IF port = 465
    THEN <<"tls.Dial", "NewClient", "Auth", "Mail", "Rcpt", "Data", "Write", "Close">>
    ELSE <<"Dial", "Hello">> \o (IF starttls THEN <<"StartTLS">> ELSE <<>>)
           \o <<"Auth", "Mail", "Rcpt", "Data", "Write", "Close", "Quit">>

\* the host names smtp.PlainAuth takes for the local machine
isLocalhost(name) == name \in {"localhost", "127.0.0.1", "::1"}

\* smtp.PlainAuth(...): the credentials go out on a TLS session, or to the local
\* machine; on any other session Auth returns an error and sends nothing
AuthAllowed(account, starttls) ==
    account.SMTPPort = 465 \/ starttls \/ isLocalhost(account.SMTPServer)

\* the number of steps of a delivery that can have succeeded
MaxDone(account, starttls, steps) ==
    IF AuthAllowed(account, starttls) THEN Len(steps)
    ELSE (CHOOSE i \in 1..Len(steps) : steps[i] = "Auth") - 1

\* a failed step attempted a second time
AttemptedRetry(steps, k) ==
    IF k < Len(steps) THEN SubSeq(steps, 1, k + 1) \o <<steps[k + 1]>> ELSE steps

\* the steps attempted when the first k succeed: each "if err != nil { return err }"
\* ends the call at the first step that fails
Attempted(steps, k) == SubSeq(steps, 1, Min(k + 1, Len(steps)))

\* the error Send returns: that of the first failed step, or nil
SendErr(steps, k) == IF k < Len(steps) THEN steps[k + 1] ELSE "nil"

\* Send(ctx, msg), whoever calls it; starttls is whether the SMTP server offers
\* the STARTTLS extension
SendCall(msg) ==
    /\ ~panicked
    /\ IF IsCommand(msg.Content)
       THEN /\ Enqueue
            /\ lastSend' = [called |-> TRUE, msg |-> msg, err |-> "nil", log |-> <<>>]
            /\ UNCHANGED <<panicked, outbox>>
       ELSE IF config.Accounts = <<>>
       THEN /\ panicked' = TRUE
            /\ UNCHANGED <<manualCheck, unserved, lastSend, outbox>>
       ELSE LET account == config.Accounts[1]
            IN \E starttls \in BOOLEAN :
                 LET steps == SmtpSteps(account.SMTPPort, starttls)
                 IN \E k \in 0..MaxDone(account, starttls, steps) :
                      /\ lastSend' = [called |-> TRUE, msg |-> msg,
                                      err |-> SendErr(steps, k),
                                      log |-> Attempted(steps, k)]
                      /\ outbox' = IF k < Len(steps) /\ steps[k + 1] # "Quit"
                                   THEN outbox ELSE outbox \cup {msg.ChatID}
                      /\ UNCHANGED <<manualCheck, unserved, panicked>>
    /\ UNCHANGED <<config, broken, now, mbox, seen, imapClients, leaked, running, stopClosed,
                   ctxDone, mu, loops, stopPc, handed, fwd, inbound, busFull>>

\* a Send call that does not come from the bus's outbound queue
Send(msg) == SendCall(msg) /\ UNCHANGED <<outbound, received, tool>>

\* the tool naming a channel other than the email channel
ExecuteMsgTelegram == [Channel |-> <<"telegram">>, ChatID |-> "system", Content |-> CmdCheck]

\* the tool publishing a content that is not the command
ExecuteMsgPlain == [Channel |-> <<"email">>, ChatID |-> "system", Content |-> <<"check">>]

\* the OutboundMessage CheckMailTool.Execute publishes
ExecuteMsg == [Channel |-> <<"email">>, ChatID |-> "system", Content |-> CmdCheck]

\* CheckMailTool.Execute: t.bus.PublishOutbound(...), the queue holding at most
\* MaxOut messages here
Execute ==
    /\ ~panicked
    /\ Len(outbound) < MaxOut
    /\ outbound' = Append(outbound, ExecuteMsg)
    /\ UNCHANGED <<config, broken, now, mbox, seen, imapClients, leaked, running, stopClosed,
                   ctxDone, manualCheck, mu, loops, stopPc, panicked, busFull, handed,
                   fwd, inbound, received, tool, unserved, lastSend, outbox>>

\* the channel names the bus has a channel for
Registered == {<<"email">>} \cup DOMAIN received

\* the bus's dispatcher takes the oldest OutboundMessage and calls Send of the
\* registered channel it names; with no such channel the message is dropped
DispatchOutbound ==
    /\ outbound # <<>>
    /\ outbound' = Tail(outbound)
    /\ LET msg == Head(outbound)
       IN IF msg.Channel = <<"email">>
          THEN SendCall(msg) /\ UNCHANGED <<received, tool>>
          ELSE /\ ~panicked
               /\ received' = IF msg.Channel \in Registered
                               THEN [received EXCEPT ![msg.Channel] = Append(@, msg)]
                               ELSE received
               /\ UNCHANGED <<config, broken, now, mbox, seen, imapClients, leaked, running,
                              stopClosed, ctxDone, manualCheck, mu, loops, stopPc, panicked,
                              busFull, handed, fwd, inbound, tool, unserved, lastSend, outbox>>

OutMsg(to, content) == [ChatID |-> to, Content |-> content]

CmdContents == {<<"CMD:CHECK">>, <<" ", "CMD:CHECK", " ">>}
Contents == CmdContents \cup {<<"hi">>, <<"CMD:CHECK", " ", "hi">>, <<>>}
ChatIDs == {"system", "bob@x.org"}

SendCheck == Send(OutMsg("system", CmdCheck))
SendAny == \E to \in ChatIDs, c \in Contents : Send(OutMsg(to, c))

\* the agent loop drains the inbound queue, or the queue fills up
BusFlip ==
    /\ ~panicked
    /\ busFull' = ~busFull
    /\ UNCHANGED <<config, broken, now, mbox, seen, imapClients, leaked, running, stopClosed,
                   ctxDone, manualCheck, mu, loops, stopPc, panicked, handed, fwd, inbound, outbound, received, tool,
                   unserved, lastSend, outbox>>

\* ---------------------------------------------------------------- the tools

channelVars ==
    <<config, broken, now, mbox, seen, imapClients, leaked, running, stopClosed, ctxDone,
      manualCheck, mu, loops, stopPc, busFull, handed, fwd, inbound, outbound,
      received, unserved, lastSend, outbox>>

\* the values of args map[string]interface{}: a string, a number, a boolean, or
\* no entry under the key
Str(x) == [type |-> "string", str |-> x, num |-> 0, bool |-> FALSE]
Num(n) == [type |-> "number", str |-> "", num |-> n, bool |-> FALSE]
Bool(b) == [type |-> "bool", str |-> "", num |-> 0, bool |-> b]
Absent == [type |-> "absent", str |-> "", num |-> 0, bool |-> FALSE]

\* v, _ := args[key].(string)
AsString(v) == IF v.type = "string" THEN v.str ELSE ""

\* if c, ok := args["count"].(float64); ok { count = int(c) }
AsCount(v, default) == IF v.type = "number" THEN v.num ELSE default

\* a call the agent is about to make: the tool's name and what Execute is given
Pending(name, inputs) == {[name |-> name, in |-> in, done |-> FALSE] : in \in inputs}

\* Execute of the tool called name is given tool.in and returns out, or panics
ToolCall(name, out) ==
    /\ ~panicked
    /\ tool.name = name /\ ~tool.done
    /\ tool' = [name |-> name, in |-> tool.in, done |-> TRUE, out |-> out]
    /\ panicked' = out.panic
    /\ UNCHANGED channelVars

\* a *ToolResult: its Err ("nil" for none), its text for the model, whether it
\* was made by ErrorResult, and the calls to the remote service that were made on
\* the way to it
ToolResult(err, forLLM, calls) ==
    [Err |-> err, ForLLM |-> forLLM, IsError |-> FALSE, calls |-> calls, panic |-> FALSE]

\* ErrorResult(message), after the calls made
ErrorResult(message, calls) ==
    [Err |-> "nil", ForLLM |-> message, IsError |-> TRUE, calls |-> calls, panic |-> FALSE]

\* Execute did not return: a run-time panic, after the calls made
Panic(calls) ==
    [Err |-> "nil", ForLLM |-> "", IsError |-> FALSE, calls |-> calls, panic |-> TRUE]

\* CalendarTool.getService: the service kept from an earlier call, or one built
\* from the key file; the error it returns, "nil" for none
getService(cfg, env) ==
    IF env.cached THEN "nil"
    ELSE IF cfg.CredentialsJSON = "" THEN "calendar credentials_json not configured"
    ELSE IF ~env.keyOk THEN "unable to read client secret file"
    ELSE "nil"

\* CalendarTool.listEvents
listEvents(args, env) ==
    LET call == <<[api |-> "Events.List", MaxResults |-> AsCount(args.count, 10)]>>
    IN IF ~env.apiOk THEN ToolResult("unable to retrieve events", "", call)
       ELSE IF env.events = 0 THEN ToolResult("nil", "No upcoming events found.", call)
       ELSE ToolResult("nil", "Upcoming events", call)

\* CalendarTool.addEvent; a start_time is well formed when time.Parse takes it
addEvent(args, env) ==
    LET summary == AsString(args.summary)
        startTimeStr == AsString(args.start_time)
        endTimeStr == AsString(args.end_time)
        call == <<[api |-> "Events.Insert", MaxResults |-> 0]>>
    IN IF summary = "" \/ startTimeStr = ""
       THEN ToolResult("summary and start_time are required", "", <<>>)
       ELSE IF endTimeStr = "" /\ startTimeStr # "2023-10-27T10:00:00Z"
       THEN ToolResult("invalid start_time format", "", <<>>)
       ELSE IF ~env.apiOk THEN ToolResult("unable to create event", "", call)
       ELSE ToolResult("nil", "Event created", call)

\* CalendarTool.Execute without the check of config.Enabled
CalendarExecuteUnguarded(cfg, args, env) ==
    IF getService(cfg, env) # "nil" THEN ToolResult(getService(cfg, env), "", <<>>)
    ELSE IF AsString(args.action) = "list_events" THEN listEvents(args, env)
    ELSE IF AsString(args.action) = "add_event" THEN addEvent(args, env)
    ELSE ToolResult("unknown action", "", <<>>)

\* CalendarTool.Execute(ctx, args)
CalendarExecute(cfg, args, env) ==
    IF ~cfg.Enabled THEN ToolResult("calendar tool is disabled in config", "", <<>>)
    ELSE IF getService(cfg, env) # "nil" THEN ToolResult(getService(cfg, env), "", <<>>)
    ELSE IF AsString(args.action) = "list_events" THEN listEvents(args, env)
    ELSE IF AsString(args.action) = "add_event" THEN addEvent(args, env)
    ELSE ToolResult("unknown action", "", <<>>)

\* the inputs of a calendar call: the configuration, the arguments, and what the
\* key file and the Calendar API do
CalendarInputs ==
    [cfg : [Enabled : BOOLEAN, CredentialsJSON : {"", "key.json"}],
     args : [action : {Str("list_events"), Str("add_event"), Str("unknown_action"),
                       Str(""), Num(1), Absent},
             count : {Absent, Num(3)},
             summary : {Absent, Str("s")},
             start_time : {Absent, Str("tomorrow"), Str("2023-10-27T10:00:00Z")},
             end_time : {Absent, Str("2023-10-27T11:00:00Z")}],
     env : [cached : BOOLEAN, keyOk : BOOLEAN, apiOk : BOOLEAN, events : {0, 2}]]

\* a call of the calendar tool; the service is kept only by a tool that is
\* enabled and was given a key file
CalendarCall ==
    /\ tool.name = "calendar"
    /\ tool.in.env.cached => tool.in.cfg.Enabled /\ tool.in.cfg.CredentialsJSON # ""
    /\ ToolCall("calendar", CalendarExecute(tool.in.cfg, tool.in.args, tool.in.env))

\* NewGitHubTool: the client is made only for an enabled configuration
NewGitHubTool(cfg) == [config |-> cfg, client |-> cfg.Enabled]

\* listIssues, getPR, readFile, listRepos: one call to the GitHub API
GitHubApi(api, perPage, env) ==
    LET call == <<[api |-> api, PerPage |-> perPage]>>
    IN IF env.apiOk THEN ToolResult("nil", api, call)
       ELSE ErrorResult("Failed: " \o api, call)

\* GitHubTool.Execute: the switch over the action
GitHubActions(args, env) ==
    LET action == AsString(args.action)
        owner == AsString(args.owner)
        repo == AsString(args.repo)
        count == Min(AsCount(args.count, 5), 20)
    IN IF action = "list_issues"
       THEN IF owner = "" \/ repo = ""
            THEN ErrorResult("Owner and repo are required for list_issues.", <<>>)
            ELSE GitHubApi("Issues.ListByRepo", count, env)
       ELSE IF action = "get_pr"
       THEN IF owner = "" \/ repo = ""
            THEN ErrorResult("Owner and repo are required for get_pr.", <<>>)
            ELSE IF args.number.type # "number"
            THEN ErrorResult("Number is required for get_pr.", <<>>)
            ELSE GitHubApi("PullRequests.Get", 0, env)
       ELSE IF action = "read_file"
       THEN IF owner = "" \/ repo = ""
            THEN ErrorResult("Owner and repo are required for read_file.", <<>>)
            ELSE IF AsString(args.path) = ""
            THEN ErrorResult("Path is required for read_file.", <<>>)
            ELSE GitHubApi("Repositories.GetContents", 0, env)
       ELSE IF action = "list_repos" THEN GitHubApi("Repositories.List", count, env)
       ELSE ErrorResult("Unknown action", <<>>)

\* GitHubTool.Execute without the check of config.Enabled
GitHubExecuteUnguarded(t, args, env) ==
    IF ~t.client THEN ErrorResult("GitHub client not initialized.", <<>>)
    ELSE GitHubActions(args, env)

\* GitHubTool.Execute(ctx, args)
GitHubExecute(t, args, env) ==
    IF ~t.config.Enabled
    THEN ErrorResult("GitHub tool is not enabled in configuration.", <<>>)
    ELSE IF ~t.client THEN ErrorResult("GitHub client not initialized.", <<>>)
    ELSE GitHubActions(args, env)

GitHubInputs ==
    [cfg : [Enabled : BOOLEAN, Token : {"", "t"}],
     args : [action : {Str("list_issues"), Str("get_pr"), Str("read_file"),
                       Str("list_repos"), Str("user_info"), Absent},
             count : {Absent, Num(30)},
             owner : {Absent, Str("o")},
             repo : {Absent, Str("r")},
             number : {Absent, Num(7)},
             path : {Absent, Str("README.md")}],
     env : [apiOk : BOOLEAN]]

\* a call of the GitHub tool
GitHubCall ==
    /\ tool.name = "github"
    /\ ToolCall("github", GitHubExecute(NewGitHubTool(tool.in.cfg), tool.in.args, tool.in.env))

\* what checkAccount comes to: its error ("nil" for none), the number of emails
\* the server sent, whether it wrote them to the result, and whether it ended
\* in a run-time panic
Checked(acc, err, n, panic) ==
    [Email |-> acc.Email, err |-> err, n |-> n, data |-> err = "nil" /\ n > 0,
     panic |-> panic]

\* c.Fetch(seqset, items, messages) and the loop over the messages: the server
\* sends the messages of the mailbox that the sequence set names
Fetch(acc, seqset) ==
    LET n == Cardinality(seqset \cap (1..acc.messages))
    IN IF seqset = {} \/ acc.fail = "fetch" THEN Checked(acc, "fetch failed", n, FALSE)
       ELSE Checked(acc, "nil", n, FALSE)

\* the cap of the unread messages that leaves the slice as it is for a count
\* below zero
CapUidsClamped(uids, count) ==
    IF Len(uids) > count /\ count >= 0
    THEN [panic |-> FALSE, uids |-> SubSeq(uids, Len(uids) - count + 1, Len(uids))]
    ELSE [panic |-> FALSE, uids |-> uids]

\* if len(uids) > count { uids = uids[len(uids)-count:] }: the slice expression
\* panics when its low bound is above len(uids)
CapUids(uids, count) ==
    IF Len(uids) > count
    THEN IF Len(uids) - count > Len(uids)
         THEN [panic |-> TRUE, uids |-> <<>>]
         ELSE [panic |-> FALSE, uids |-> SubSeq(uids, Len(uids) - count + 1, Len(uids))]
    ELSE [panic |-> FALSE, uids |-> uids]

\* checkAccount(acc) of ReadEmailTool.Execute. The messages without \Seen are
\* taken to be the newest acc.unseen of the mailbox. uint32(count) of a count
\* below zero is 2^32 + count, which no mailbox of the model exceeds;
\* seqset.AddRange names the numbers between its two arguments, in either order
checkAccount(acc, count, unreadOnly) ==
    LET uids == [i \in 1..acc.unseen |-> acc.messages - acc.unseen + i]
        from == IF count >= 0 /\ acc.messages > count
                THEN acc.messages - count + 1 ELSE 1
        AddRange(start, stop) == Min(start, stop)..(IF start > stop THEN start ELSE stop)
    IN IF acc.fail = "connect" THEN Checked(acc, "failed to connect", 0, FALSE)
       ELSE IF acc.fail = "login" THEN Checked(acc, "failed to login", 0, FALSE)
       ELSE IF acc.fail = "select" THEN Checked(acc, "failed to select INBOX", 0, FALSE)
       ELSE IF acc.messages = 0 THEN Checked(acc, "nil", 0, FALSE)
       ELSE IF unreadOnly
       THEN IF acc.fail = "search" THEN Checked(acc, "failed to search", 0, FALSE)
            ELSE IF uids = <<>> THEN Checked(acc, "nil", 0, FALSE)
            ELSE IF CapUids(uids, count).panic THEN Checked(acc, "nil", 0, TRUE)
            ELSE Fetch(acc, Range(CapUids(uids, count).uids))
       ELSE Fetch(acc, AddRange(from, acc.messages))

\* strings.EqualFold over the addresses of the model
EqualFold(x, y) ==
    LET ToLower(str) == IF str = "A@ME.ORG" THEN "a@me.org" ELSE str
    IN ToLower(x) = ToLower(y)

\* the loop over accountsToCheck: what checkAccount came to for each account
\* that was checked, in order, up to a panic
RECURSIVE CheckAccounts(_, _, _, _)
CheckAccounts(accounts, targetAccount, count, unreadOnly) ==
    IF accounts = <<>> THEN <<>>
    ELSE IF targetAccount # "" /\ ~EqualFold(Head(accounts).Email, targetAccount)
    THEN CheckAccounts(Tail(accounts), targetAccount, count, unreadOnly)
    ELSE LET first == checkAccount(Head(accounts), count, unreadOnly)
         IN IF first.panic THEN <<first>>
            ELSE <<first>> \o CheckAccounts(Tail(accounts), targetAccount, count, unreadOnly)

\* ReadEmailTool.Execute(ctx, args); cfg.Accounts carries, with each account,
\* the state of its mail server. The result's text is what the loop wrote to the
\* strings.Builder: per account its emails or the line of its error
ReadEmailExecute(cfg, args) ==
    IF ~cfg.Enabled
    THEN ErrorResult("Email channel is not enabled in configuration.", <<>>)
    ELSE LET count == Min(AsCount(args.count, defaultCount), maxCount)
             unreadOnly == args.unread_only.type = "bool" /\ args.unread_only.bool
             accountsToCheck == IF cfg.Accounts = <<>> /\ cfg.IMAPServer # ""
                                THEN <<cfg.legacy>> ELSE cfg.Accounts
             checked == CheckAccounts(accountsToCheck, AsString(args.account), count,
                                      unreadOnly)
             Line(c) == IF c.err # "nil" THEN <<"Error fetching from", c.Email, c.err>>
                        ELSE <<"Account", c.Email, c.n>>
             written == SelectSeq(checked, LAMBDA c : c.err # "nil" \/ c.data)
             sb == [k \in DOMAIN written |-> Line(written[k])]
         IN IF \E k \in DOMAIN checked : checked[k].panic THEN Panic(checked)
            ELSE IF sb = <<>>
            THEN ToolResult("nil", <<"No recent emails found.">>, checked)
            ELSE ToolResult("nil", sb, checked)

\* the state of a mail server: the messages of its INBOX, how many of them lack
\* \Seen, and the request it fails, if any
Servers(email) ==
    {r \in [Email : {email}, messages : {0, ToolMsgs, maxCount + 1},
            unseen : {0, ToolMsgs, maxCount + 1},
            fail : {"none", "connect", "login", "select", "search", "fetch"}] :
        r.unseen \in {0, r.messages}}

\* the configurations and arguments ReadEmailTool.Execute is given
ReadInputs ==
    LET legacy == [Email |-> "old@me.org", messages |-> 0, unseen |-> 0, fail |-> "none"]
        lists == {<<a>> : a \in Servers("a@me.org")}
                 \cup {<<a, b>> : a \in Servers("a@me.org"), b \in Servers("b@me.org")}
        cfgs == [Enabled : {TRUE}, IMAPServer : {""}, legacy : {legacy}, Accounts : lists]
                \cup [Enabled : BOOLEAN, IMAPServer : {"", "imap.me.org"},
                      legacy : Servers("old@me.org"), Accounts : {<<>>}]
    IN [cfg : cfgs,
        args : [count : {Absent, Num(0 - 1), Num(0), Num(3), Num(maxCount + 1), Str("3")},
                unread_only : {Absent, Bool(TRUE), Bool(FALSE)},
                account : {Absent, Str("A@ME.ORG")}]]

\* a call of the read_email tool
ReadEmailCall ==
    /\ tool.name = "read_email"
    /\ ToolCall("read_email", ReadEmailExecute(tool.in.cfg, tool.in.args))

\* CheckMailTool.Execute(ctx, args) of check_mail.go: ReadEmailTool.Execute with
\* unread_only true and the caller's count, 5.0 when the caller gave none
CheckMailExecute(cfg, args) ==
    ReadEmailExecute(cfg, [count |-> IF args.count.type # "absent" THEN args.count
                                     ELSE Num(defaultCount),
                           unread_only |-> Bool(TRUE), account |-> Absent])

\* a call of the check_email tool
CheckMailCall ==
    /\ tool.name = "check_email"
    /\ ToolCall("check_email", CheckMailExecute(tool.in.cfg, tool.in.args))

\* ------------------------------------------------------- specifications

Fresh == Message(0, 1, <<Alice>>, "ok", FALSE)
Old == Message(0, 0, <<Alice>>, "ok", FALSE)
Ancient == Message(0, -1, <<Alice>>, "ok", FALSE)
FromMallory == Message(0, 1, <<Mallory, Alice>>, "ok", FALSE)
NoFrom == Message(0, 1, <<>>, "ok", FALSE)
NoBody == Message(0, 1, <<Alice>>, "nil", FALSE)
BadBody == Message(0, 1, <<Alice>>, "bad", FALSE)
Read == Message(0, 1, <<Alice>>, "ok", TRUE)

Configs(accounts, allow, forward) ==
    {[Accounts |-> acs, AllowFrom |-> al, ForwardTo |-> ft] :
        acs \in accounts, al \in allow, ft \in forward}

\* one poll cycle: checkAllMail
CycleStep(l) ==
    \/ CheckConnect(l)
    \/ CheckLock(l)
    \/ AccountSkip(l)
    \/ SelectFail(l)
    \/ SelectNoFetch(l)
    \/ FetchBegin(l)
    \/ ProcessOne(l)

\* the environment starts a channel that is not running
FirstStart == ~running /\ Start

\* one account polled by one loop on its timer, over every mailbox of up to
\* MaxMsgs messages
Init ==
    InitWith(Configs({<<Account("a", 465)>>}, AllowLists, ForwardTos),
             Mailboxes({Fresh, Old, Ancient, FromMallory, NoFrom, NoBody, Read},
                       MaxMsgs, {0, 1}))

Next ==
    \/ FirstStart
    \/ Advance
    \/ BusFlip
    \/ \E l \in LoopIds : PollInitial(l) \/ PollTick(l) \/ CycleStep(l)

Spec == Init /\ [][Next]_vars

\* the life cycle of a channel: any number of Start, Stop and CheckNow calls,
\* and the cancellation of the context
InitLife ==
    InitWith(Configs({<<Account("a", 465)>>}, {<<"alice@x.org">>}, {<<>>}),
             Mailboxes({Fresh}, LifeMsgs, {0}))

NextLife ==
    \/ Start
    \/ StopSignal
    \/ StopLogout
    \/ CancelCtx
    \/ CheckNow
    \/ \E l \in LoopIds :
         \/ PollInitial(l)
         \/ PollCtxDone(l)
         \/ PollStopped(l)
         \/ PollTick(l)
         \/ PollManual(l)
         \/ CycleStep(l)

SpecLife == InitLife /\ [][NextLife]_vars

\* two accounts polled by one loop on its timer, the bus taking every message
InitMulti ==
    InitFaulty(Configs({<<Account("a", 465), Account("b", 465)>>}, {<<"alice@x.org">>},
                       {<<>>}),
               Mailboxes({Fresh, FromMallory, BadBody, Read}, MultiMsgs, {0}), "some")

NextMulti ==
    \/ FirstStart
    \/ \E l \in LoopIds : PollInitial(l) \/ PollTick(l) \/ CycleStep(l)

SpecMulti == InitMulti /\ [][NextMulti]_vars

\* a body of n one-byte characters
Ascii(n) == [i \in 1..n |-> "x"]

\* a body of c two-byte characters
TwoByte(c) == [i \in 1..(2 * c) |-> IF i % 2 = 1 THEN "C3" ELSE "A9"]

\* bodies around the forwarding limit, counted in bytes or in characters
Bodies ==
    {Ascii(n) : n \in {0, maxForward - 1, maxForward, maxForward + 1, MaxBody}}
        \cup {TwoByte(c) : c \in {maxForward \div 2, maxForward \div 2 + 1, maxForward}}

\* a fresh message with one text/plain part of the given content
WithBody(content) == [Fresh EXCEPT !.parts = <<Part("text/plain", content)>>]

\* one account holding one unread message with a body around the limit
InitFwd ==
    InitWith(Configs({<<Account("a", 465)>>}, {<<>>}, ForwardTos),
             {MailboxOf(<<WithBody(b)>>, g) : b \in Bodies, g \in {0, 1}})

NextFwd ==
    \/ FirstStart
    \/ BusFlip
    \/ \E l \in LoopIds : PollInitial(l) \/ PollTick(l) \/ CycleStep(l)

SpecFwd == InitFwd /\ [][NextFwd]_vars

\* a channel started once and never shut down, with the check_email tool and the
\* bus's dispatcher.  Every step of a poll task that can be taken is eventually
\* taken (the calls to the mail store return), the dispatcher eventually delivers
\* what is queued, and a select that is entered again and again with a manual
\* check ready eventually takes that case: Go picks among the ready cases of a
\* select at random.
NextRun ==
    \/ FirstStart
    \/ Execute
    \/ DispatchOutbound
    \/ SendCheck
    \/ CheckNow
    \/ \E l \in LoopIds :
         PollInitial(l) \/ PollTick(l) \/ PollManual(l) \/ CycleStep(l)

FairRun ==
    /\ WF_vars(DispatchOutbound)
    /\ \A l \in LoopIds : /\ WF_vars(PollInitial(l) \/ CycleStep(l))
                          /\ SF_vars(PollManual(l))

SpecRun == InitLife /\ [][NextRun]_vars /\ FairRun

\* the bus between the tools, the channels and the agent: a channel started once
\* that forwards what it receives to discord, to itself or nowhere, the
\* check_email tool, and the dispatcher, with or without a discord channel
InitBus ==
    InitRegistered(Configs({<<Account("a", 465)>>}, {<<>>},
                           ForwardTos \cup {<<"email", ":", "bob@x.org">>}),
                   Mailboxes({Fresh, FromMallory}, LifeMsgs, {0}), "none or all",
                   {{}, {<<"discord">>}})

NextBus ==
    \/ FirstStart
    \/ Execute
    \/ DispatchOutbound
    \/ \E l \in LoopIds : PollInitial(l) \/ PollTick(l) \/ CycleStep(l)

SpecBus == InitBus /\ [][NextBus]_vars

\* Send and CheckNow alone, on a channel that was not started, with no account or
\* with one account on either kind of SMTP port
InitSend ==
    InitWith(Configs({<<>>, <<Account("a", 465)>>, <<Account("a", 587)>>,
                      <<LocalAccount("a", 25)>>},
                     {<<>>}, {<<>>}),
             {<<>>})

NextSend ==
    \/ SendAny
    \/ CheckNow

SpecSend == InitSend /\ [][NextSend]_vars

\* the agent with one tool call to make, beside a channel that was not started
InitTools ==
    /\ InitChannel(Configs({<<>>}, {<<>>}, {<<>>}), {<<>>}, "none", {{}})
    /\ tool \in Pending("calendar", CalendarInputs) \cup Pending("github", GitHubInputs)
                \cup Pending("read_email", ReadInputs)
                \cup Pending("check_email", [cfg : {in.cfg : in \in ReadInputs},
                                              args : [count : {in.args.count : in \in ReadInputs}]])

NextTools ==
    \/ CalendarCall
    \/ GitHubCall
    \/ ReadEmailCall
    \/ CheckMailCall

SpecTools == InitTools /\ [][NextTools]_vars

\* a mailbox of n messages, all unread except message r (none when r = 0)
CapMailbox(n, r, gap) ==
    MailboxOf([i \in 1..n |-> IF i = r THEN Read ELSE Fresh], gap)

\* one account with about as much unread mail as one cycle takes, or more
InitCap ==
    InitFaulty(Configs({<<Account("a", 465)>>}, {<<>>}, {<<>>}),
               {CapMailbox(n, r, g) : n \in maxEmails..(maxEmails + CapExtra),
                                      r \in 0..(maxEmails + CapExtra), g \in {0, 1}},
               "none or all")

NextCap ==
    \/ FirstStart
    \/ \E l \in LoopIds : PollInitial(l) \/ PollTick(l) \/ CycleStep(l)

SpecCap == InitCap /\ [][NextCap]_vars

\* one account with more unread mail than one cycle takes, on a mail store that
\* answers every request, its UIDs equal to the sequence numbers or far above
\* them; the timer ticks for ever and every call of the poll task returns
InitDefer ==
    InitFaulty(Configs({<<Account("a", 465)>>}, AllowLists, {<<>>}),
               {CapMailbox(n, 0, g) : n \in (maxEmails + 1)..(maxEmails + CapExtra),
                                      g \in {0, FarGap}},
               "none")

NextDefer ==
    \/ FirstStart
    \/ \E l \in LoopIds :
         \/ PollInitial(l)
         \/ PollTick(l)
         \/ CheckConnect(l)
         \/ CheckLock(l)
         \/ SelectNoFetch(l)
         \/ FetchBegin(l)
         \/ ProcessOne(l)

FairDefer ==
    \A l \in LoopIds :
        WF_vars(PollInitial(l) \/ PollTick(l) \/ CheckConnect(l) \/ CheckLock(l)
                  \/ SelectNoFetch(l) \/ FetchBegin(l) \/ ProcessOne(l))

SpecDefer == InitDefer /\ [][NextDefer]_vars /\ FairDefer

\* every sequence of up to MaxParts inline parts: plain text, HTML or another
\* inline type, each empty or with one of two contents
PartLists ==
    SeqsUpTo({Part(t, c) : t \in {"text/plain", "text/html", "text/calendar"},
                           c \in {<<>>, <<"1">>, <<"2">>}}, MaxParts)

\* one account holding one unread message of the last hour with the given parts,
\* on a mail store that answers every request
InitParts ==
    InitFaulty(Configs({<<Account("a", 465)>>}, {<<>>}, {<<>>}),
               {MailboxOf(<<[Fresh EXCEPT !.parts = ps]>>, 0) : ps \in PartLists}, "none")

SpecParts == InitParts /\ [][NextDefer]_vars

\* ------------------------------------------------------------- the claims

\* no poll cycle is in flight
Quiet == \A l \in LoopIds : ~InCycle(l)

MsgIds == UNION {{<<a, i>> : i \in DOMAIN mbox[a]} : a \in DOMAIN mbox}

\* the message was unread when the channel was built and is seen now
SeenByChannel(a, i) == seen[a][i] /\ ~mbox[a][i].read

\* the first From address of the message is on no entry of a non-empty allow-list
RejectedSender(m) ==
    /\ m.env
    /\ m.from # <<>>
    /\ config.AllowFrom # <<>>
    /\ \A k \in DOMAIN config.AllowFrom :
         config.AllowFrom[k] # m.from[1].MailboxName \o "@" \o m.from[1].HostName

\* the message is more than an hour old at every poll: it already was when the
\* channel was built
AlwaysStale(m) == m.env /\ Hour - m.date > Hour

(* C1: once no poll cycle is in flight, every message the channel has marked
   seen has had an InboundMessage handed to the bus; a message whose processing
   produced no hand-off is still unread. *)
C1_SeenOnlyIfHanded ==
    Quiet => \A id \in MsgIds :
               SeenByChannel(id[1], id[2]) => handed[id[1]][id[2]] > 0

(* C2: no InboundMessage is ever handed to the bus for a message whose sender
   the allow-list rejects. *)
C2_RejectedNeverPublished ==
    \A id \in MsgIds :
        RejectedSender(mbox[id[1]][id[2]]) => handed[id[1]][id[2]] = 0

\* a poll cycle has fetched and gone past a message of a rejected sender
C2_Witness ==
    /\ Quiet
    /\ \E id \in MsgIds : /\ RejectedSender(mbox[id[1]][id[2]])
                          /\ SeenByChannel(id[1], id[2])

(* C3: once no poll cycle is in flight, a message of a rejected sender that was
   unread is still unread: the cycle skipped it without marking it seen. *)
C3_RejectedStaysUnread ==
    Quiet => \A id \in MsgIds :
               RejectedSender(mbox[id[1]][id[2]]) => ~SeenByChannel(id[1], id[2])

(* C4: an unread message more than one hour old at the time of every poll is
   never published, inbound or forwarded, and never marked seen, so that every
   later poll finds it unread again. *)
C4_StaleUntouched ==
    \A id \in MsgIds :
        AlwaysStale(mbox[id[1]][id[2]]) =>
            /\ handed[id[1]][id[2]] = 0
            /\ fwd[id[1]][id[2]] = 0
            /\ ~SeenByChannel(id[1], id[2])

(* C5: a poll cycle fetches at most maxEmails = 10 messages of an account; the
   unread messages it leaves out all have lower sequence numbers than the ones
   it fetched, and they are still unread and unpublished during the cycle and
   after it. *)
C5_CapNewestTen ==
    \A l \in LoopIds :
        /\ Len(loops[l].work) <= maxEmails
        /\ \A id \in loops[l].deferred :
             /\ ~seen[id[1]][id[2]]
             /\ handed[id[1]][id[2]] = 0
             /\ \A j \in Range(loops[l].work) : id[2] < j

\* a cycle over maxEmails + CapExtra unread messages has ended: maxEmails of them
\* were handed to the bus and are seen, CapExtra are left unread
C5_Witness ==
    \E l \in LoopIds :
        /\ loops[l].pc = "select"
        /\ Cardinality(loops[l].deferred) = CapExtra
        /\ Cardinality({id \in MsgIds : handed[id[1]][id[2]] > 0
                                         /\ seen[id[1]][id[2]]}) = maxEmails

(* C6: a manual check is pending exactly when a CheckNow call was made since the
   poll task last consumed the signal: however many calls were made before the
   poll task consumes it, consuming it leaves nothing pending, so they cause one
   poll cycle and not two. *)
C6_OneCyclePerBurst == (manualCheck > 0) <=> (unserved > 0)

\* two CheckNow calls were made before a waiting poll task consumed the signal
C6_Witness ==
    /\ unserved = 2
    /\ manualCheck = 1
    /\ \E l \in LoopIds : loops[l].pc = "select"

(* C7: CheckNow can always return: it is enabled in every state of a live
   process, whatever the poll task is doing and whether or not the channel was
   started; and the signal slot never holds more than one pending check. *)
C7_CheckNowNeverBlocks ==
    /\ manualCheck <= ManualCheckCap
    /\ ~panicked => ENABLED CheckNow

\* a second CheckNow call has returned on a channel that was never started, while
\* the first one is still pending
C7_Witness ==
    /\ unserved = 2
    /\ manualCheck = ManualCheckCap
    /\ ~running
    /\ \A l \in LoopIds : loops[l].pc = "off"

\* the poll cycle of loop l has run its connection phase and has not ended
Begun(l) == loops[l].pc \in {"lock", "account", "fetch"}

(* C8: poll cycles of one channel are serialized: no poll cycle executes a step
   while another poll cycle of the channel has begun and not ended, so two
   cycles are never both past their connection phase and unfinished. *)
C8_CyclesSerialized ==
    \A l1, l2 \in LoopIds : (Begun(l1) /\ Begun(l2)) => l1 = l2

(* C9: a Start call on a channel that is already running has no effect: it
   creates no poll loop and makes no connection. *)
C9_StartWhileRunningNoOp ==
    [][(running /\ Start) => UNCHANGED <<loops, imapClients, leaked>>]_vars

(* C10: Send of the content "CMD:CHECK" returns nil, performs no SMTP step,
   delivers nothing to the SMTP server and leaves one manual check pending. *)
C10_SendCheckCommand ==
    [][\A to \in ChatIDs :
         Send(OutMsg(to, CmdCheck)) =>
            /\ lastSend'.err = "nil"
            /\ lastSend'.log = <<>>
            /\ outbox' = outbox
            /\ manualCheck' = ManualCheckCap
            /\ ~panicked']_vars

\* a Send of the command has returned
C10_Witness ==
    /\ lastSend.called
    /\ lastSend.msg.Content = CmdCheck
    /\ lastSend.err = "nil"
    /\ manualCheck = ManualCheckCap

(* C11: on a running channel, the OutboundMessage that CheckMailTool.Execute
   published is dispatched to Send, which leaves a manual check pending; and a
   pending manual check is eventually consumed by the poll task, which starts a
   poll cycle at that moment, whether or not a timer tick ever comes. *)
C11_CheckToolTriggersCycle ==
    /\ (running /\ outbound # <<>>) ~> (manualCheck > 0)
    /\ (running /\ manualCheck > 0)
          ~> (unserved = 0 /\ \E l \in LoopIds : loops[l].pc = "connect")

\* the message of CheckMailTool.Execute went through Send and the poll task has
\* consumed the manual check it left
C11_Witness ==
    /\ running
    /\ lastSend.called
    /\ lastSend.msg = ExecuteMsg
    /\ unserved = 0
    /\ manualCheck = 0
    /\ \E l \in LoopIds : loops[l].pc = "connect"

(* C12: a poll loop that had a cycle in flight when the shutdown signal was
   raised finishes that cycle and then exits: back in its select, it starts no
   new poll cycle. *)
C12_ShutdownEndsPolling ==
    [][\A l \in LoopIds :
         (loops[l].shut /\ loops[l].pc = "select") => loops'[l].pc # "connect"]_vars

\* Stop has returned and the channel has not been started again
Stopped == stopClosed /\ ~running /\ stopPc = "idle" /\ ~panicked

(* C13: once Stop has returned, and until the channel is started again, no
   account has an open mail-store session in the channel's map. *)
C13_NoSessionAfterStop == Stopped => \A a \in Accts : ~Live(a)

(* C14: a poll task ends only once the context is cancelled or Stop was
   called, whatever request to the mail store failed in its cycles; a task that
   is back in its select does not hold the mutex, can take the next timer tick
   and can take a pending manual check. *)
C14_FailuresNeverEndLoop ==
    /\ [][\A l \in LoopIds :
            (loops[l].pc # "off" /\ loops'[l].pc = "off") => (ctxDone \/ stopClosed)]_vars
    /\ [](\A l \in LoopIds :
            (loops[l].pc = "select" /\ ~panicked) =>
                /\ mu # l
                /\ ENABLED PollTick(l)
                /\ manualCheck > 0 => ENABLED PollManual(l))

\* no shutdown was signalled; the only poll task has started a new cycle after a
\* cycle in which Select failed on an account
C14_Witness ==
    /\ ~stopClosed
    /\ ~ctxDone
    /\ \E a \in Accts : imapClients[a] = "logout"
    /\ \E l \in LoopIds : /\ loops[l].pc = "connect"
                          /\ \A k \in LoopIds \ {l} : loops[k].pc = "off"

\* message m was unread, is within the staleness window and comes from an
\* allowed sender
PassesFilters(m) ==
    /\ ~m.read
    /\ m.env
    /\ now - m.date <= Hour
    /\ m.from # <<>>
    /\ \/ config.AllowFrom = <<>>
       \/ \E k \in DOMAIN config.AllowFrom :
            config.AllowFrom[k] = m.from[1].MailboxName \o "@" \o m.from[1].HostName

\* message m passes the filters and has a body that can be read
Qualifies(m) == PassesFilters(m) /\ m.body = "ok"

(* C15: when a poll cycle has ended, every account whose mail store fails no
   request has had each of its qualifying unread messages handed to the bus,
   whatever failed on the other accounts in that cycle. *)
C15_OtherAccountsUnaffected ==
    \A l \in LoopIds :
        loops[l].pc = "select" =>
            \A b \in Accts \ broken :
                \A i \in DOMAIN mbox[b] : Qualifies(mbox[b][i]) => handed[b][i] = 1

\* a cycle has ended in which one account, listed first or last, could not be
\* reached or selected, and a message of the other account was handed to the bus
C15_Witness ==
    /\ \E l \in LoopIds : loops[l].pc = "select"
    /\ \E a \in broken : ~Live(a)
    /\ \E b \in Accts \ broken : \E i \in DOMAIN mbox[b] : handed[b][i] = 1

(* C16: the step in which selecting INBOX fails for an account leaves the
   account's client logged out, fetches, publishes and flags nothing of that
   account, and ends the account's turn in the cycle; from then on
   connectAllIMAP counts the account among those to connect and log in again. *)
C16_SelectFailureTearsDown ==
    [][\A a \in Accts :
         (Live(a) /\ imapClients'[a] = "logout") =>
            /\ seen'[a] = seen[a]
            /\ handed'[a] = handed[a]
            /\ fwd'[a] = fwd[a]
            /\ \A l \in LoopIds : loops'[l].acct # a /\ loops'[l].work = <<>>
            /\ NeedsConnect(a)']_vars

\* a cycle has ended in which Select failed on an account that had unread mail:
\* the client is logged out and the mail is still unread
C16_Witness ==
    /\ \E l \in LoopIds : loops[l].pc = "select"
    /\ \E a \in Accts : /\ imapClients[a] = "logout"
                        /\ \E i \in DOMAIN mbox[a] : ~mbox[a][i].read /\ ~seen[a][i]

\* the messages of account a that were unread when the channel was built
Unread(a) == {i \in DOMAIN mbox[a] : ~mbox[a][i].read}

\* the positions in the bus's inbound log of the InboundMessages made from
\* message i of account a
InboundFor(a, i) == {k \in DOMAIN inbound : inbound[k].src = <<a, i>>}

(* C17: for an account whose mail store fails no request, with no forward
   target and N <= maxEmails unread messages that all qualify, the first poll
   cycle to end has published exactly N InboundMessages, one per message, each
   with the address of the message's first sender as chatID, and all N
   messages are seen. *)
C17_AllQualifyingPublished ==
    \A l \in LoopIds :
        loops[l].pc = "select" =>
            \A a \in Accts \ broken :
                (/\ ForwardTarget = <<>>
                 /\ Cardinality(Unread(a)) <= maxEmails
                 /\ \A i \in Unread(a) : Qualifies(mbox[a][i])) =>
                    /\ Cardinality({k \in DOMAIN inbound : inbound[k].src[1] = a})
                         = Cardinality(Unread(a))
                    /\ \A i \in Unread(a) :
                         /\ Cardinality(InboundFor(a, i)) = 1
                         /\ \A k \in InboundFor(a, i) :
                              inbound[k].ChatID =
                                  mbox[a][i].from[1].MailboxName \o "@"
                                      \o mbox[a][i].from[1].HostName
                         /\ seen[a][i]

\* a cycle over exactly maxEmails unread messages has ended on a mail store that
\* fails no request
C17_Witness ==
    /\ \E l \in LoopIds : loops[l].pc = "select"
    /\ \E a \in Accts \ broken : /\ Cardinality(Unread(a)) = maxEmails
                                 /\ Len(inbound) = maxEmails

(* C18: a message that was handed to the bus is marked seen from the step of
   its hand-off on, so that no later Search returns it, and no message is ever
   handed to the bus twice. *)
C18_HandedIsSeen ==
    \A id \in MsgIds :
        /\ handed[id[1]][id[2]] <= 1
        /\ handed[id[1]][id[2]] = 1 => seen[id[1]][id[2]]

\* a later poll cycle is about to search a mailbox of which a message was handed
\* to the bus by an earlier cycle
C18_Witness ==
    /\ \E l \in LoopIds : loops[l].pc = "account"
    /\ \E id \in MsgIds : handed[id[1]][id[2]] = 1 /\ ~mbox[id[1]][id[2]].read

(* C19: with the forward target "discord:12345" configured, the processing of
   a fetched message that passes the staleness and allow-list filters publishes
   exactly one outbound notification for it, addressed to channel "discord" and
   chatID "12345", whether or not an InboundMessage is handed to the bus for
   it; the message had no notification before. *)
C19_ForwardedExactlyOnce ==
    [][\A l \in LoopIds :
         (/\ config.ForwardTo = <<"discord", ":", "12345">>
          /\ loops[l].pc = "fetch"
          /\ loops'[l] # loops[l]
          /\ PassesFilters(mbox[loops[l].acct][Head(loops[l].work)])) =>
            /\ fwd[loops[l].acct][Head(loops[l].work)] = 0
            /\ fwd'[loops[l].acct][Head(loops[l].work)] = 1
            /\ Len(outbound') = Len(outbound) + 1
            /\ outbound'[Len(outbound')].Channel = <<"discord">>
            /\ outbound'[Len(outbound')].ChatID = <<"12345">>
            /\ outbound'[Len(outbound')].src
                 = <<loops[l].acct, Head(loops[l].work)>>]_vars

\* the positions in body of the bytes that start a character
Leads(body) == SelectSeq([i \in DOMAIN body |-> i], LAMBDA i : body[i] # "A9")

\* body when it has at most maxForward characters, and otherwise its first
\* maxForward characters followed by the ellipsis marker
TruncateChars(body) ==
    IF Len(Leads(body)) > maxForward
    THEN SubSeq(body, 1, Leads(body)[maxForward + 1] - 1) \o <<"...">>
    ELSE body

\* what follows the n leading tokens of a content
After(content, n) == SubSeq(content, n + 1, Len(content))

(* C20: every forward notification carries, after its heading, the body of its
   email unchanged when the body has at most 500 characters and otherwise the
   first 500 characters followed by "..."; every InboundMessage carries, after
   its heading, the whole body. *)
C20_ForwardTruncation ==
    /\ \A k \in DOMAIN outbound :
         After(outbound[k].Content, 7)
             = TruncateChars(mbox[outbound[k].src[1]][outbound[k].src[2]].parts[1].content)
    /\ \A k \in DOMAIN inbound :
         After(inbound[k].Content, 5)
             = mbox[inbound[k].src[1]][inbound[k].src[2]].parts[1].content

\* a Send call that had a message to deliver has returned
Delivery == lastSend.called /\ ~IsCommand(lastSend.msg.Content)

\* the steps of the last Send call that succeeded
Succeeded ==
    IF lastSend.err = "nil" THEN lastSend.log
    ELSE SubSeq(lastSend.log, 1, Len(lastSend.log) - 1)

\* wherever step y is in seq, step x is somewhere before it
Precedes(x, y, seq) ==
    \A j \in DOMAIN seq : seq[j] = y => \E i \in 1..(j - 1) : seq[i] = x

\* authentication, MAIL FROM, RCPT TO and the message data, in that order
EnvelopeOrder ==
    /\ Precedes("Auth", "Mail", Succeeded)
    /\ Precedes("Mail", "Rcpt", Succeeded)
    /\ Precedes("Rcpt", "Data", Succeeded)
    /\ Precedes("Data", "Write", Succeeded)

(* C21: in a Send that had a message to deliver, on port 465 the TLS dial is the
   first step and every SMTP step follows it; on any other port the session
   starts with a plaintext dial and an authentication that succeeded was
   preceded by the STARTTLS upgrade; on every port authentication precedes
   MAIL FROM, which precedes RCPT TO, which precedes the message data. *)
C21_HandshakeBeforeAuth ==
    Delivery =>
        /\ lastSend.log[1] = IF config.Accounts[1].SMTPPort = 465 THEN "tls.Dial" ELSE "Dial"
        /\ config.Accounts[1].SMTPPort # 465 => Precedes("StartTLS", "Auth", Succeeded)
        /\ EnvelopeOrder

\* the same, for the sessions of C21 that are not in plaintext on the local machine
C21_OrderWhenUpgraded ==
    (Delivery /\ ~isLocalhost(config.Accounts[1].SMTPServer)) =>
        /\ lastSend.log[1] = IF config.Accounts[1].SMTPPort = 465 THEN "tls.Dial" ELSE "Dial"
        /\ config.Accounts[1].SMTPPort # 465 => Precedes("StartTLS", "Auth", Succeeded)
        /\ EnvelopeOrder

\* seq is the beginning of full
IsPrefix(seq, full) == Len(seq) <= Len(full) /\ seq = SubSeq(full, 1, Len(seq))

\* no step occurs twice in seq
NoRepeat(seq) == \A i, j \in DOMAIN seq : seq[i] = seq[j] => i = j

(* C22: a Send that has a message to deliver attempts the steps of its session
   in order and each at most once; when a step fails that step is the last one
   attempted and its error is what Send returns, and unless the message had
   already been accepted (only the closing QUIT failed) nothing is delivered;
   Send returns nil only when every step of the session was taken and none
   failed. *)
C22_FirstFailureEndsSend ==
    [][\A to \in ChatIDs, c \in Contents \ CmdContents :
         (Send(OutMsg(to, c)) /\ config.Accounts # <<>>) =>
            LET log == lastSend'.log
                err == lastSend'.err
                port == config.Accounts[1].SMTPPort
            IN /\ NoRepeat(log)
               /\ \E starttls \in BOOLEAN :
                     /\ IsPrefix(log, SmtpSteps(port, starttls))
                     /\ err = "nil" => log = SmtpSteps(port, starttls)
               /\ err # "nil" => log # <<>> /\ log[Len(log)] = err
               /\ err \notin {"nil", "Quit"} => outbox' = outbox
               /\ err = "nil" => to \in outbox']_vars

\* a Send failed at RCPT TO and delivered nothing
C22_Witness ==
    /\ Delivery
    /\ lastSend.err = "Rcpt"
    /\ lastSend.log = <<"tls.Dial", "NewClient", "Auth", "Mail", "Rcpt">>
    /\ outbox = {}

\* the OutboundMessage is the notification of a forwarded email
IsNotification(msg) == "src" \in DOMAIN msg

(* C23: whenever the bus dispatches the oldest outbound message, the message
   leaves the queue and is given to the Send of the one channel it names and to
   no other: the check_email command to the email channel, a notification to
   the channel named in ForwardTo; when no channel of that name is registered
   no Send is called, nothing fails, and the bus goes on dispatching and taking
   messages. *)
C23_DispatchedToNamedChannel ==
    /\ [][DispatchOutbound =>
            LET msg == Head(outbound)
            IN /\ outbound' = Tail(outbound)
               /\ ~IsNotification(msg) => msg.Channel = <<"email">>
               /\ IsNotification(msg) => msg.Channel = ForwardTarget[1]
               /\ msg.Channel = <<"email">> =>
                     /\ lastSend'.called /\ lastSend'.msg = msg
                     /\ received' = received
               /\ msg.Channel \in DOMAIN received =>
                     /\ received' = [received EXCEPT ![msg.Channel] = Append(@, msg)]
                     /\ lastSend' = lastSend
               /\ msg.Channel \notin Registered =>
                     /\ received' = received
                     /\ lastSend' = lastSend
                     /\ ~panicked']_vars
    /\ [](outbound # <<>> => ENABLED DispatchOutbound)
    /\ [](Len(outbound) < MaxOut => ENABLED Execute)

\* the discord channel was given a notification and the email channel the command
C23_Witness ==
    /\ <<"discord">> \in DOMAIN received
    /\ received[<<"discord">>] # <<>>
    /\ lastSend.called
    /\ lastSend.msg = ExecuteMsg

\* a notification for discord was dropped: no discord channel is registered
C23_Dropped ==
    /\ <<"discord">> \notin Registered
    /\ ForwardTarget # <<>> /\ ForwardTarget[1] = <<"discord">>
    /\ \E id \in MsgIds : fwd[id[1]][id[2]] > 0
    /\ outbound = <<>>

\* the sequence numbers a mailbox of the model can have
AllSeqNums == 1..(maxEmails + CapExtra)

(* C24: with the poll task running and the mail store answering, an unread
   message that the cap of a cycle left out is in the working set of a later
   cycle. *)
C24_DeferredIsRetried ==
    \A i \in AllSeqNums :
        (\E l \in LoopIds : <<1, i>> \in loops[l].deferred)
            ~> (\E l \in LoopIds : loops[l].pc = "fetch" /\ i \in Range(loops[l].work))

\* the oldest message of a mailbox of more than maxEmails unread messages is
\* being processed
C24_Witness ==
    /\ Len(mbox[1]) > maxEmails
    /\ \E l \in LoopIds : loops[l].pc = "fetch" /\ 1 \in Range(loops[l].work)

\* the sequence numbers of seq go up
Ascending(seq) == \A i, j \in DOMAIN seq : i < j => seq[i] < seq[j]

(* C25: the messages a poll cycle has fetched from an account and still has to
   process are in ascending sequence order, and the cycle publishes the
   InboundMessage of the first of them before it turns to the others: within
   one cycle of one account a message with a lower sequence number is published
   before one with a higher sequence number. *)
C25_PublishedInSequenceOrder ==
    /\ [](\A l \in LoopIds : loops[l].pc = "fetch" => Ascending(loops[l].work))
    /\ [][\A l \in LoopIds :
            (ProcessOne(l) /\ Len(inbound') > Len(inbound)) =>
                /\ inbound'[Len(inbound')].src = <<loops[l].acct, Head(loops[l].work)>>
                /\ SubSeq(inbound', 1, Len(inbound)) = inbound
                /\ loops'[l].pc = "fetch" =>
                      /\ loops'[l].acct = loops[l].acct
                      /\ loops'[l].work = Tail(loops[l].work)]_vars

\* two cycles have published: the second one published an older message after
\* the first one had published the newest maxEmails in ascending order
C25_Witness ==
    /\ Len(inbound) > maxEmails
    /\ Ascending([k \in 1..maxEmails |-> inbound[k].src[2]])
    /\ inbound[maxEmails + 1].src[2] < inbound[maxEmails].src[2]

\* the poll task l was started and has not taken its first step
JustStarted(l) == loops[l].pc = "initial"

(* C26: Start starts a poll task; the first thing the task does is a poll
   cycle, which can begin at once, needs neither a timer tick nor a manual-check
   signal and consumes no signal, and which does begin. *)
C26_FirstCycleAtStart ==
    /\ [][Start => \E l \in LoopIds : loops[l].pc = "off" /\ JustStarted(l)']_vars
    /\ [](\A l \in LoopIds :
            JustStarted(l) => /\ ENABLED PollInitial(l)
                              /\ ~ENABLED PollTick(l)
                              /\ ~ENABLED PollManual(l))
    /\ [][\A l \in LoopIds :
            (JustStarted(l) /\ ~JustStarted(l)') =>
                /\ loops'[l].pc = "connect"
                /\ manualCheck' = manualCheck
                /\ unserved' = unserved]_vars
    /\ \A l \in LoopIds : JustStarted(l) ~> (loops[l].pc = "connect")

\* a poll cycle has begun on a channel to which nothing was ever sent
C26_Witness ==
    /\ running
    /\ \E l \in LoopIds : loops[l].pc = "connect"
    /\ manualCheck = 0
    /\ ~lastSend.called
    /\ outbound = <<>>


\* the call of the named tool has returned or panicked
Called(name) == tool.name = name /\ tool.done

\* C27: whenever the calendar tool is disabled in configuration, or the action
\* asked for is neither list_events nor add_event, CalendarTool.Execute returns
\* a result with a non-nil Err and neither lists nor creates a calendar event.
C27_NoEventWithoutValidCall ==
    Called("calendar")
    /\ (~tool.in.cfg.Enabled
        \/ AsString(tool.in.args.action) \notin {"list_events", "add_event"})
    => tool.out.Err # "nil" /\ tool.out.calls = <<>>

\* an enabled tool with a working service was asked for an unknown action
C27_Witness ==
    /\ Called("calendar")
    /\ tool.in.cfg.Enabled /\ tool.in.env.cached /\ tool.in.env.apiOk
    /\ tool.in.args.action = Str("unknown_action")
    /\ tool.out.Err # "nil" /\ tool.out.calls = <<>>

\* C28: GitHubTool.Execute on a tool whose configuration is not enabled returns,
\* for every action and every set of arguments, the error result that says the
\* tool is not enabled, and makes no call to the GitHub API.
C28_DisabledMakesNoCall ==
    Called("github") /\ ~tool.in.cfg.Enabled
    => tool.out = ErrorResult("GitHub tool is not enabled in configuration.", <<>>)

\* a disabled tool was asked to list the issues of a repository, with every
\* argument the action needs and an API that would have answered
C28_Witness ==
    /\ Called("github") /\ ~tool.in.cfg.Enabled
    /\ tool.in.args.action = Str("list_issues")
    /\ tool.in.args.owner = Str("o") /\ tool.in.args.repo = Str("r")
    /\ tool.in.env.apiOk
    /\ tool.out.IsError /\ tool.out.calls = <<>>

\* ReadEmailTool.Execute was called, directly or by CheckMailTool.Execute, on an
\* enabled configuration
ReadCalled == (Called("read_email") \/ Called("check_email")) /\ tool.in.cfg.Enabled

\* the most emails a call may fetch from one account: 10, or the default 5 when
\* the caller gave no count
FetchLimit == IF tool.in.args.count.type = "absent" THEN defaultCount ELSE maxCount

\* no account was sent more emails than the limit
WithinLimit == \A k \in DOMAIN tool.out.calls : tool.out.calls[k].n <= FetchLimit

\* C29: for every value of the count argument (absent, zero, negative, above 10)
\* and both values of unread_only, ReadEmailTool.Execute does not crash and
\* fetches at most 10 emails per account, at most 5 when count is absent.
C29_AtMostTenNoCrash == ReadCalled => ~tool.out.panic /\ WithinLimit

\* the same as C29 for the calls whose count is absent, not a number, or at
\* least zero
C29_HoldsFromZeroUp ==
    ReadCalled /\ AsCount(tool.in.args.count, 0) >= 0 => ~tool.out.panic /\ WithinLimit

\* a count below zero with unread_only set crashed the call
C29_NegativeCountPanics ==
    ReadCalled /\ AsCount(tool.in.args.count, 0) < 0 /\ tool.out.panic

\* a count below zero without unread_only fetched a whole mailbox of more than
\* 10 messages
C29_NegativeCountFetchesAll ==
    /\ ReadCalled /\ AsCount(tool.in.args.count, 0) < 0 /\ ~tool.out.panic
    /\ \E k \in DOMAIN tool.out.calls : tool.out.calls[k].n > maxCount

\* the accounts a call of read_email is to check: those of the configuration, or
\* the legacy one, that the account argument names
ToCheck ==
    LET cfg == tool.in.cfg
        all == IF cfg.Accounts = <<>> /\ cfg.IMAPServer # "" THEN <<cfg.legacy>>
               ELSE cfg.Accounts
    IN SelectSeq(all, LAMBDA a : AsString(tool.in.args.account) = ""
                                 \/ EqualFold(a.Email, AsString(tool.in.args.account)))

\* every account to check was checked; each error is in the result text under
\* its account, and so are the emails of each account that had some
AllReported ==
    /\ Len(tool.out.calls) = Len(ToCheck)
    /\ \A k \in DOMAIN tool.out.calls :
          LET c == tool.out.calls[k]
          IN /\ c.Email = ToCheck[k].Email
             /\ ToCheck[k].fail \in {"connect", "login", "select"} => c.err # "nil"
             /\ c.err # "nil" =>
                    <<"Error fetching from", c.Email, c.err>> \in Range(tool.out.ForLLM)
             /\ c.err = "nil" /\ c.n > 0 =>
                    <<"Account", c.Email, c.n>> \in Range(tool.out.ForLLM)

\* C30: in ReadEmailTool.Execute over several accounts, a connect, login, select,
\* search or fetch error on one account is reported in the result text for that
\* account and does not stop the other accounts from being checked, and the
\* emails of the accounts that succeeded are returned.
C30_ErrorsReportedOthersChecked ==
    Called("read_email") /\ tool.in.cfg.Enabled => ~tool.out.panic /\ AllReported

\* the same as C30 for the calls that return
C30_HoldsWhenExecuteReturns ==
    Called("read_email") /\ tool.in.cfg.Enabled /\ ~tool.out.panic => AllReported

\* the first account failed and the second was checked and its emails returned
C30_ErrorThenEmails ==
    /\ Called("read_email") /\ tool.in.cfg.Enabled /\ ~tool.out.panic
    /\ Len(tool.out.calls) = 2
    /\ tool.out.calls[1].err # "nil" /\ tool.out.calls[2].data
    /\ Len(tool.out.ForLLM) = 2

\* the first account failed and the check of the second one crashed the call
C30_ErrorThenPanic ==
    /\ Called("read_email") /\ tool.out.panic
    /\ Len(tool.out.calls) = 2
    /\ tool.out.calls[1].err # "nil"

\* the session of account a in the map is the one that was there before the step,
\* and no open session of a was dropped from the map by the step
SessionKept(a) ==
    /\ imapClients'[a] \in {imapClients[a], "selected", "logout"}
    /\ (a \in leaked') = (a \in leaked)

\* C31: an account whose session is live, authenticated with or without INBOX
\* selected, keeps that same session in every step: no connect+login is made for
\* it, so it never has a second open session and its session is never replaced
\* in the map while still open.
C31_LiveSessionKept == [][\A a \in Accts : Live(a) => SessionKept(a)]_vars

\* the same as C31 for the sessions that are authenticated with no mailbox selected
C31_HoldsBeforeSelect ==
    [][\A a \in Accts : imapClients[a] = "auth" => SessionKept(a)]_vars

\* a cycle has begun for an account whose session of the cycle before is still
\* open with INBOX selected, and the session was replaced without being closed
C31_SelectedSessionReplaced ==
    \E a \in Accts : a \in leaked /\ Live(a) /\ \E l \in LoopIds : InCycle(l)

\* the step of loop l in which the Store for the message it processed returns
\* an error
StoreFails(l) ==
    /\ ProcessOne(l)
    /\ LET a == loops[l].acct
           i == Head(loops[l].work)
       IN /\ ~Stale(mbox[a][i])
          /\ FALSE \in Outcomes(a)
          /\ processAndStore(a, i, FALSE)

\* the step of loop l in which the Search for the unread messages returns an error
SearchFails(l) ==
    /\ SelectNoFetch(l)
    /\ FALSE \in Outcomes(loops[l].acct)
    /\ Len(mbox[loops[l].acct]) # 0
    /\ Search(loops[l].acct) # <<>>

\* loop l has left the messages of the account it was checking
AccountLeft(l) == loops'[l].pc # "fetch"

\* C32: a search or store failure on an account in the middle of a poll cycle
\* ends the cycle for that account: the poll task goes on to the next account
\* or back to its select, and processes no further message of the account (a
\* fetch failure ends the stream of messages by itself).
C32_FailureEndsAccount ==
    [][\A l \in LoopIds : StoreFails(l) \/ SearchFails(l) => AccountLeft(l)]_vars

\* the same as C32 for the failure of the search alone, which also publishes and
\* flags nothing
C32_HoldsForSearch ==
    [][\A l \in LoopIds :
          SearchFails(l) => AccountLeft(l) /\ UNCHANGED <<seen, handed, fwd, inbound>>]_vars

\* the Store for a message has just failed and the task is about to process the
\* next message of the same account
C32_NextMessageAfterFailure ==
    \E l \in LoopIds :
        /\ loops[l].pc = "fetch"
        /\ loops[l].acct \in broken
        /\ \E i \in DOMAIN mbox[loops[l].acct] :
              /\ i < Head(loops[l].work)
              /\ handed[loops[l].acct][i] > 0

\* the step is one of poll task l
PollStep(l) ==
    /\ loops[l].pc # "off"
    /\ \/ loops'[l].pc # loops[l].pc
       \/ loops'[l].acct # loops[l].acct
       \/ loops'[l].work # loops[l].work

\* the step creates, closes or changes the state of a mail-store session
SessionStep == imapClients' # imapClients \/ leaked' # leaked

\* C33: the mail-store sessions are created, used and closed only by the
\* channel's poll task, one task at a time: every step that changes a session is
\* a step of a poll task that holds the mutex or takes it, and Start, Stop, Send
\* and CheckNow change no session.
C33_SessionsOnlyByPollTask ==
    [][SessionStep => \E l \in LoopIds : PollStep(l) /\ mu \in {0, l}]_vars

\* the part of C33 about two tasks at once: whoever changes a session holds the
\* mutex or takes it free, and the poll task inside checkAccountMail holds it
C33_HoldsOneTaskAtATime ==
    [][/\ SessionStep => mu = 0 \/ \E l \in LoopIds : PollStep(l) /\ mu = l
       /\ \A l \in LoopIds : loops[l].pc \in {"account", "fetch"} => mu = l]_vars

\* Stop, in its caller's task, has logged out a session the poll task had opened
\* and the poll task is still there
C33_StopClosedSession ==
    /\ stopClosed /\ stopPc = "idle"
    /\ \E a \in Accts : imapClients[a] = "logout"
    /\ \E l \in LoopIds : loops[l].pc # "off"

\* the contents of the text/plain parts
PlainContents(parts) ==
    {parts[k].content : k \in {j \in DOMAIN parts : parts[j].ctype = "text/plain"}}

\* the bodies the specification allows for a message with the given inline
\* parts: the content of a text/plain part when there is one, otherwise the
\* content of the first part
BestBodies(parts) ==
    IF PlainContents(parts) # {} THEN PlainContents(parts)
    ELSE IF parts # <<>> THEN {parts[1].content}
    ELSE {<<>>}

\* the InboundMessage carries one of the given bodies of the message it was made from
CarriesOneOf(in, bodies) ==
    \E b \in bodies :
        in.Content = contentWithContext(config.Accounts[in.src[1]].Email,
                                        mbox[in.src[1]][in.src[2]].subject, b)

PartsOf(in) == mbox[in.src[1]][in.src[2]].parts

\* C34: for every sequence of inline parts, the body that is extracted and
\* published is the content of a text/plain part whenever the message has one,
\* wherever an HTML part stands, and otherwise the content of the first part
\* that was encountered.
C34_PlainElseFirstPart ==
    \A k \in DOMAIN inbound : CarriesOneOf(inbound[k], BestBodies(PartsOf(inbound[k])))

\* the same as C34 for the messages whose parts are plain text or HTML and none
\* of them empty
C34_HoldsForPlainAndHtml ==
    \A k \in DOMAIN inbound :
        (\A j \in DOMAIN PartsOf(inbound[k]) :
            /\ PartsOf(inbound[k])[j].ctype \in {"text/plain", "text/html"}
            /\ PartsOf(inbound[k])[j].content # <<>>)
        => CarriesOneOf(inbound[k], BestBodies(PartsOf(inbound[k])))

\* an empty text/plain part followed by an HTML part was published with the HTML
C34_EmptyPlainThenHtml ==
    \E k \in DOMAIN inbound :
        /\ PartsOf(inbound[k]) = <<Part("text/plain", <<>>), Part("text/html", <<"1">>)>>
        /\ CarriesOneOf(inbound[k], {<<"1">>})

\* a message whose only part is neither plain text nor HTML was published with
\* an empty body
C34_OtherTypeIgnored ==
    \E k \in DOMAIN inbound :
        /\ PartsOf(inbound[k]) = <<Part("text/calendar", <<"1">>)>>
        /\ CarriesOneOf(inbound[k], {<<>>})

\* the step of loop l changes the seen flag of no message of the account but the
\* one the loop is processing
OthersUntouched(l) ==
    \A j \in DOMAIN seen[loops[l].acct] \ {Head(loops[l].work)} :
        seen'[loops[l].acct][j] = seen[loops[l].acct][j]

\* C35: marking a message seen after its hand-off changes the flag of no message
\* other than the one just processed, in every mailbox, those whose UIDs differ
\* from the sequence numbers included.
C35_SeenOnlyOnProcessed ==
    [][\A l \in LoopIds : ProcessOne(l) => OthersUntouched(l)]_vars

\* the same as C35 for the messages whose UID is their sequence number
C35_HoldsWhenUidIsSeqNum ==
    [][\A l \in LoopIds :
          /\ ProcessOne(l)
          /\ mbox[loops[l].acct][Head(loops[l].work)].uid = Head(loops[l].work)
          => OthersUntouched(l)]_vars

\* C36: no manual-check request is lost. Whenever CheckNow calls were made on a
\* running channel since the poll task last took the signal, one call or
\* several coalesced into one signal, with or without a poll cycle in flight,
\* the poll task eventually takes the signal and begins a poll cycle.
C36_NoCheckLost ==
    \A n \in 1..MaxCalls :
        (running /\ unserved = n)
            ~> (unserved = 0 /\ \E l \in LoopIds : loops[l].pc = "connect")

\* a second CheckNow call was coalesced with a pending one while the poll task
\* was in the middle of a cycle
C36_Witness ==
    /\ running
    /\ unserved = MaxCalls
    /\ manualCheck = ManualCheckCap
    /\ \E l \in LoopIds : loops[l].pc = "fetch"

\* C37: Stop is safe in any state. A call of Stop, be it the first or a later
\* one, on a channel that was started or not, before or after the context was
\* cancelled, does not crash the process.
C37_StopNeverCrashes == [][StopSignal => ~panicked']_vars

\* the first Stop of a channel does not crash, whether or not the channel was
\* started and whether or not the context was cancelled
C37_HoldsForFirstStop == [][(StopSignal /\ ~stopClosed) => ~panicked']_vars

\* Stop returned on a channel whose context had been cancelled
C37_StoppedAfterCancel == Stopped /\ ctxDone

\* a second Stop closed the closed stop channel
C37_SecondStopCrashed == panicked /\ stopClosed /\ ~running

\* C38: a channel that is running with a live context and no Stop in progress,
\* started for the first time or started again after a Stop, has a poll task.
C38_RestartResumesPolling ==
    (running /\ ~ctxDone /\ ~panicked /\ stopPc = "idle") =>
        \E l \in LoopIds : loops[l].pc # "off"

\* a channel that was never stopped has its poll task as long as the context
\* is live
C38_HoldsUntilFirstStop ==
    (running /\ ~ctxDone /\ ~panicked /\ stopPc = "idle" /\ ~stopClosed) =>
        \E l \in LoopIds : loops[l].pc # "off"

\* the poll task of a restarted channel found the stop channel closed and
\* returned, with a manual check left pending
C38_RestartedTaskGone ==
    /\ running /\ ~ctxDone /\ ~panicked /\ stopPc = "idle"
    /\ manualCheck > 0
    /\ \A l \in LoopIds : loops[l].pc = "off"

\* C39: Send of a message that is not the command, on a channel that has no
\* account, returns an error, does not crash the process and sends nothing.
C39_NoAccountSendFails ==
    [][\A to \in ChatIDs, c \in Contents \ CmdContents :
         (Send(OutMsg(to, c)) /\ config.Accounts = <<>>) =>
            /\ ~panicked'
            /\ lastSend'.called /\ lastSend'.err # "nil"
            /\ outbox' = outbox]_vars

\* a channel that has no account sends nothing and returns no error
C39_HoldsNothingSent ==
    config.Accounts = <<>> => outbox = {} /\ lastSend.err = "nil"

\* Send indexed the empty account list
C39_SendCrashed == panicked /\ config.Accounts = <<>> /\ ~lastSend.called

====
